---- MODULE Spec2Model ----
(***************************************************************************)
(* Model of the feishu-reader extraction pipeline.                         *)
(*                                                                         *)
(* Text is a sequence of symbols.  A symbol is a string standing for one   *)
(* character or for one fixed literal of the source ("**", "](", the       *)
(* marker "__IMAGE_TOKEN__", ...); "backtick" stands for the backquote and *)
(* "<fence>" for three of them.  Attribute values are symbol sequences;    *)
(* the empty sequence is the falsy value (undefined, '', false).           *)
(***************************************************************************)
EXTENDS Integers, Sequences, FiniteSets, TLC

VARIABLES
    pc,         \* position of the operation under way
    ops,        \* opsToMd: the inline runs handed in (zoneState.content.ops)
    opsAfter,   \* opsToMd: the same runs after the call (attr.link is assigned)
    mdOut,      \* the text returned by the function under call
    tree,       \* the block handed to the renderer (rootBlockModel, or one block)
    nativeParent, \* whether the block model exposes block.parent
    images,     \* the script's images list
    flat1,      \* flatChildren(children)
    flat2,      \* flatChildren(flatChildren(children))
    md_text,    \* the text under resolution, clean-up and saving
    tokens,     \* resolve_and_download_images: re.findall(...)
    idx,        \* resolve_and_download_images: tokens handled by the for loop
    img_count,  \* resolve_and_download_images: images saved (count)
    url,        \* resolve_and_download_images: locator of the token under way
    files,      \* names of the files written to imgs_dir, in order
    attempts,   \* the token and outcome of every loop iteration, in order
    rootLoaded, \* window.PageMain.blockManager.rootBlockModel is set
    dom,        \* what the page's DOM shows: "docx", "hc" or "other"
    hcPage,     \* the title and content a help-center page yields
    doc_type,   \* extract_via_cdp: wait_for_doc_ready's answer
    script,     \* the record the injected script returned, <<>> before it ran
    title,      \* the document title handed to cleanup_markdown
    result,     \* extract_via_cdp: the dict returned, <<>> before it returns
    outFile,    \* the Markdown file written, <<>> when none
    output_path, \* extract: the output argument, <<>> for None
    urls,       \* batch_extract: the urls argument
    ready,      \* ensure_ready()["ready"]
    results,    \* batch_extract: the results list
    summary,    \* batch_extract: the dict returned, <<>> before it returns
    lock,       \* _login_ws_lock: "free", or the thread that holds it
    helper,     \* the helper page's server thread inside _live_screenshot
    page,       \* what the browser tab shows while the user logs in
    current_url, \* wait_for_login: the location.href last read
    polls,      \* wait_for_login: iterations of the polling loop begun
    login,      \* wait_for_login: the value returned, <<>> before it returns
    flag,       \* _login_status_flag
    login_ws_ref, \* _login_ws_ref: "ws" when set, "None" otherwise
    cdp_id,     \* core/cdp.py: the global _cdp_id
    inbox,      \* the ids of the messages the websocket holds for recv(), 0 for none
    mainSent,   \* the id sent by the last cdp call of the thread of wait_for_login
    helperSent, \* the id sent by the last cdp call of the helper thread
    lastReturn, \* the last return of cdp: the thread, the id sent, the id answered
    stdin,      \* _run_mcp_server: the request lines not read yet
    stdout,     \* what has reached the process's standard output, in order
    stderr,     \* what has reached the process's standard error, in order
    pending     \* lines print() left in sys.stdout's text buffer

opsVars == <<ops, opsAfter>>
treeVars == <<tree, nativeParent, images, flat1, flat2>>
imgVars == <<md_text, tokens, idx, img_count, url, files, attempts>>
extractVars == <<rootLoaded, dom, hcPage, doc_type, script, title, result, outFile>>
pipeVars == <<imgVars, extractVars>>
batchVars == <<urls, ready, results, summary>>
refVars == <<flag, login_ws_ref>>
wsVars == <<cdp_id, inbox, mainSent, helperSent, lastReturn>>
loginVars == <<lock, helper, page, current_url, polls, login, refVars, wsVars>>
mcpVars == <<stdin, stdout, stderr, pending>>
skillVars == <<output_path, batchVars, loginVars, mcpVars>>
engineVars == <<mdOut, opsVars, treeVars, pipeVars, mcpVars>>

vars == <<pc, ops, opsAfter, mdOut, tree, nativeParent, images, flat1, flat2,
          md_text, tokens, idx, img_count, url, files, attempts,
          rootLoaded, dom, hcPage, doc_type, script, title, result, outFile,
          output_path, urls, ready, results, summary,
          lock, helper, page, current_url, polls, login,
          flag, login_ws_ref, cdp_id, inbox, mainSent, helperSent, lastReturn,
          stdin, stdout, stderr, pending>>

(***************************************************************************)
(* Sequences helpers                                                       *)
(***************************************************************************)
Range(s) == {s[i] : i \in DOMAIN s}

RECURSIVE Concat(_)
\* Array.prototype.join('') of a list of texts
Concat(ss) == IF ss = <<>> THEN <<>> ELSE Head(ss) \o Concat(Tail(ss))

RECURSIVE Join(_, _)
\* Array.prototype.join(sep) / str.join
Join(ss, sep) ==
    IF ss = <<>> THEN <<>>
    ELSE IF Len(ss) = 1 THEN Head(ss)
    ELSE Head(ss) \o sep \o Join(Tail(ss), sep)

\* s.replace(/\n$/, '')
StripFinalNewline(s) ==
    IF s # <<>> /\ s[Len(s)] = "\n" THEN SubSeq(s, 1, Len(s) - 1) ELSE s

(***************************************************************************)
(* Style Composer: opsToMd                                                 *)
(***************************************************************************)
Truthy(v) == v # <<>>

\* attr.<key> of a record kept as the ordered list of its <<key, value>> entries
Attr(attr, key) ==
    IF \E i \in DOMAIN attr : attr[i][1] = key
    THEN attr[CHOOSE i \in DOMAIN attr : attr[i][1] = key][2]
    ELSE <<>>

\* attr.<key> = value: an existing entry keeps its place, a new one goes last
SetAttr(attr, key, value) ==
    IF \E i \in DOMAIN attr : attr[i][1] = key
    THEN [i \in DOMAIN attr |-> IF attr[i][1] = key THEN <<key, value>> ELSE attr[i]]
    ELSE Append(attr, <<key, value>>)

EscChar(c) ==
    IF c = "&" THEN <<"&amp;">>
    ELSE IF c = "<" THEN <<"&lt;">>
    ELSE IF c = ">" THEN <<"&gt;">>
    ELSE <<c>>

RECURSIVE esc(_)
esc(s) == IF s = <<>> THEN <<>> ELSE EscChar(Head(s)) \o esc(Tail(s))

\* decodeURIComponent: "%41" is the escape of "A"; a lone "%" is malformed
DecodeThrows(uri) == \E i \in DOMAIN uri : uri[i] = "%"

decodeURIComponent(uri) ==
    [i \in DOMAIN uri |-> IF uri[i] = "%41" THEN "A" ELSE uri[i]]

\* JSON.parse of an inline-component value.  The value <<"mention_doc", t, u>>
\* stands for {"type":"mention_doc","data":{"title":t,"raw_url":u}},
\* <<"mention_doc">> for the same without data, <<"other">> for another type,
\* anything else is not JSON.
JsonThrows(v) == v[1] \notin {"mention_doc", "other"}

IsMentionDoc(v) == ~JsonThrows(v) /\ v[1] = "mention_doc" /\ Len(v) = 3

\* op.attributes || {}
AttrOf(op) == IF op.hasAttrs THEN op.attributes ELSE <<>>

\* lines 105-113: text and attributes after the mention step
MentionText(op) ==
    LET ic == Attr(AttrOf(op), "inline-component")
    IN IF Truthy(ic) /\ IsMentionDoc(ic) THEN op.insert \o <<ic[2]>> ELSE op.insert

MentionAttr(op) ==
    LET ic == Attr(AttrOf(op), "inline-component")
    IN IF Truthy(ic) /\ IsMentionDoc(ic)
       THEN SetAttr(AttrOf(op), "link", <<ic[3]>>)
       ELSE AttrOf(op)

\* lines 117-125
ColourWrap(attr, md) ==
    IF Truthy(Attr(attr, "textHighlight")) \/ Truthy(Attr(attr, "textHighlightBackground"))
    THEN LET fg == IF Truthy(Attr(attr, "textHighlight"))
                   THEN Attr(attr, "textHighlight") ELSE <<"inherit">>
             bg == IF Truthy(Attr(attr, "textHighlightBackground"))
                   THEN Attr(attr, "textHighlightBackground") ELSE <<"inherit">>
         IN IF bg # <<"inherit">>
            THEN <<"<mark style=\"background:">> \o bg \o <<"\">">> \o esc(md) \o <<"</mark>">>
            ELSE IF fg # <<"inherit">>
            THEN <<"<font color=\"">> \o fg \o <<"\">">> \o esc(md) \o <<"</font>">>
            ELSE md
    ELSE md

StrikeWrap(attr, md) ==
    IF Truthy(Attr(attr, "strikethrough")) THEN <<"~~">> \o md \o <<"~~">> ELSE md

BoldWrap(attr, md) ==
    IF Truthy(Attr(attr, "bold")) THEN <<"**">> \o md \o <<"**">> ELSE md

ItalicWrap(attr, md) ==
    IF Truthy(Attr(attr, "italic")) THEN <<"*">> \o md \o <<"*">> ELSE md

LinkWrap(attr, md) ==
    LET link == Attr(attr, "link")
    IN IF Truthy(link)
       THEN <<"[">> \o md \o <<"](">>
            \o (IF DecodeThrows(link) THEN link ELSE decodeURIComponent(link))
            \o <<")">>
       ELSE md

\* lines 115-135, the standard pipeline
StyleWrapBoldOuter(attr, text) ==
    LinkWrap(attr, BoldWrap(attr, ItalicWrap(attr, StrikeWrap(attr, ColourWrap(attr, text)))))

StyleWrap(attr, text) ==
    LinkWrap(attr, ItalicWrap(attr, BoldWrap(attr, StrikeWrap(attr, ColourWrap(attr, text)))))

\* one iteration of the loop of opsToMd: the part pushed, <<>> when none is
OpSkipped(op) ==
    \/ Truthy(Attr(AttrOf(op), "fixEnter"))
    \/ ~op.hasAttrs /\ op.insert = <<"\n">>

OpToMd(op) ==
    LET attr == AttrOf(op)
    IN IF OpSkipped(op) THEN <<>>
       ELSE IF Truthy(Attr(attr, "equation"))
       THEN <<"$">> \o StripFinalNewline(Attr(attr, "equation")) \o <<"$">>
       ELSE IF Truthy(Attr(attr, "inlineCode"))
       THEN <<"backtick">> \o op.insert \o <<"backtick">>
       ELSE StyleWrap(MentionAttr(op), MentionText(op))

\* the run as the call leaves it: attr.link = ic.data.raw_url writes into
\* op.attributes when the run has an attribute record
OpAfter(op) ==
    LET attr == AttrOf(op)
    IN IF OpSkipped(op) \/ Truthy(Attr(attr, "equation")) \/ Truthy(Attr(attr, "inlineCode"))
          \/ ~op.hasAttrs
       THEN op
       ELSE [op EXCEPT !.attributes = MentionAttr(op)]

opsToMd(opList) == Concat([i \in DOMAIN opList |-> OpToMd(opList[i])])

(***************************************************************************)
(* Blocks                                                                  *)
(***************************************************************************)
\* A block of the tree.  _parent is the reference flatChildren injects:
\* <<>> when absent, <<id>> of the parent otherwise.  image is <<>> or
\* <<[token, name]>> (snapshot.image); fetch says whether the block has an
\* imageManager with a fetch function; columns is snapshot.columns_id.length.
PlainOp(text) == [insert |-> text, hasAttrs |-> FALSE, attributes |-> <<>>]

Block(id, type, children) ==
    [id |-> id, type |-> type, children |-> children, _parent |-> <<>>,
     hasOps |-> TRUE, ops |-> <<PlainOp(<<id>>)>>, allText |-> <<>>,
     seq |-> <<>>, done |-> FALSE, columns |-> 0, image |-> <<>>, fetch |-> FALSE,
     language |-> <<>>, url |-> <<>>, data |-> <<>>]

HeadingTypes == {"heading0", "heading1", "heading2", "heading3", "heading4",
                 "heading5", "heading6", "heading7", "heading8", "heading9"}

\* lines 142-150
blockText(block) ==
    IF block.hasOps THEN opsToMd(block.ops)
    ELSE IF Truthy(block.allText) THEN StripFinalNewline(block.allText)
    ELSE <<>>

RECURSIVE flatChildren(_, _)
\* flatChildren with a synced_source pushed like a heading instead of inlined
flatChildrenKeepRef(children, parent) ==
    IF children = <<>> THEN <<>>
    ELSE LET child == IF parent # <<>>
                      THEN [Head(children) EXCEPT !._parent = parent]
                      ELSE Head(children)
             below == IF child.children # <<>>
                      THEN flatChildren(child.children, <<child.id>>) ELSE <<>>
             here == IF child.type \in HeadingTypes \cup {"text", "toggle_heading", "synced_source"}
                     THEN <<child>> \o below
                     ELSE <<child>>
         IN here \o flatChildren(Tail(children), parent)

\* flatChildren with the children of a synced_source put after the siblings
\* that follow it
flatChildrenRefsLast(children, parent) ==
    IF children = <<>> THEN <<>>
    ELSE LET child == IF parent # <<>>
                      THEN [Head(children) EXCEPT !._parent = parent]
                      ELSE Head(children)
             below == IF child.children # <<>>
                      THEN flatChildren(child.children, <<child.id>>) ELSE <<>>
         IN IF child.type = "synced_source"
            THEN flatChildren(Tail(children), parent) \o below
            ELSE (IF child.type \in HeadingTypes \cup {"text", "toggle_heading"}
                  THEN <<child>> \o below ELSE <<child>>)
                 \o flatChildren(Tail(children), parent)

\* lines 154-176; parent is <<id>> of the block whose children are flattened
flatChildren(children, parent) ==
    IF children = <<>> THEN <<>>
    ELSE LET child == IF parent # <<>>
                      THEN [Head(children) EXCEPT !._parent = parent]
                      ELSE Head(children)
             below == IF child.children # <<>>
                      THEN flatChildren(child.children, <<child.id>>) ELSE <<>>
             here == IF child.type = "synced_source"
                     THEN flatChildren(child.children, <<child.id>>)
                     ELSE IF child.type \in HeadingTypes \/ child.type = "text"
                     THEN <<child>> \o below
                     ELSE IF child.type = "toggle_heading"
                     THEN <<child>> \o below
                     ELSE <<child>>
         IN here \o flatChildren(Tail(children), parent)

RECURSIVE FindBlock(_, _)
\* the blocks with the given id at or below the blocks of a list
FindBlock(blocks, id) ==
    IF blocks = <<>> THEN <<>>
    ELSE (IF Head(blocks).id = id THEN <<Head(blocks)>> ELSE <<>>)
         \o FindBlock(Head(blocks).children, id)
         \o FindBlock(Tail(blocks), id)

RECURSIVE ParentIdOf(_, _)
\* block.parent of the block model: <<id>> of the block that holds `id`
ParentIdOf(blocks, id) ==
    IF blocks = <<>> THEN <<>>
    ELSE LET b == Head(blocks)
             mine == IF \E i \in DOMAIN b.children : b.children[i].id = id
                     THEN <<b.id>> ELSE <<>>
             deeper == ParentIdOf(b.children, id)
             rest == ParentIdOf(Tail(blocks), id)
         IN IF mine # <<>> THEN mine ELSE IF deeper # <<>> THEN deeper ELSE rest

\* block._parent || block.parent
ParentRef(block) ==
    IF block._parent # <<>> THEN block._parent
    ELSE IF nativeParent THEN ParentIdOf(<<tree>>, block.id)
    ELSE <<>>

DigitSym == <<"0", "1", "2", "3", "4", "5", "6", "7", "8", "9">>

RECURSIVE NumStr(_)
\* a number converted to its decimal text (seq + '. ')
NumStr(n) ==
    IF n < 10 THEN <<DigitSym[n + 1]>> ELSE NumStr(n \div 10) \o <<DigitSym[(n % 10) + 1]>>

RECURSIVE ScanSiblings(_, _, _)
\* ScanSiblings without the reset on a sibling that is not an ordered item
ScanSiblingsNoReset(sibs, id, count) ==
    IF sibs = <<>> THEN 1
    ELSE LET c == IF Head(sibs).type = "ordered" THEN count + 1 ELSE count
         IN IF Head(sibs).id = id THEN c ELSE ScanSiblings(Tail(sibs), id, c)

\* lines 457-465: the counter when the scan reaches the block, 1 when it never does
ScanSiblings(sibs, id, count) ==
    IF sibs = <<>> THEN 1
    ELSE LET c == IF Head(sibs).type = "ordered" THEN count + 1 ELSE 0
         IN IF Head(sibs).id = id THEN c ELSE ScanSiblings(Tail(sibs), id, c)

SeqIsAuto(block) == block.seq = <<>> \/ block.seq = <<"auto">> \/ block.seq = <<"undefined">>

\* OrderedSeq counting the siblings whether or not snapshot.seq is set
OrderedSeqAlwaysScan(block) ==
    LET ref == ParentRef(block)
        found == IF ref = <<>> THEN <<>> ELSE FindBlock(<<tree>>, ref[1])
        seq == IF found # <<>> THEN ScanSiblings(found[1].children, block.id, 0) ELSE 1
    IN NumStr(IF seq < 1 THEN 1 ELSE seq)

\* lines 449-468: the number of an ordered item, as text
OrderedSeq(block) ==
    IF SeqIsAuto(block)
    THEN LET ref == ParentRef(block)
             found == IF ref = <<>> THEN <<>> ELSE FindBlock(<<tree>>, ref[1])
             seq == IF found # <<>> THEN ScanSiblings(found[1].children, block.id, 0) ELSE 1
         IN NumStr(IF seq < 1 THEN 1 ELSE seq)
    ELSE block.seq

RECURSIVE Repeat(_, _)
\* String.prototype.repeat
Repeat(s, n) == IF n = 0 THEN <<>> ELSE s \o Repeat(s, n - 1)

RECURSIVE ReplaceSym(_, _, _)
\* replace(/c/g, by) for a one-symbol pattern
ReplaceSym(s, c, by) ==
    IF s = <<>> THEN <<>>
    ELSE (IF Head(s) = c THEN by ELSE <<Head(s)>>) \o ReplaceSym(Tail(s), c, by)

\* lines 190-194: the text of one table cell
CellText(cell) ==
    ReplaceSym(
        ReplaceSym(Join([i \in DOMAIN cell.children |-> blockText(cell.children[i])], <<" ">>),
                   "|", <<"\\|">>),
        "\n", <<" ">>)

RECURSIVE Slices(_, _)
\* lines 185-187: cells.slice(i, i + colCount) for i = 0, colCount, ...
Slices(cells, colCount) ==
    IF cells = <<>> THEN <<>>
    ELSE IF Len(cells) <= colCount THEN <<cells>>
    ELSE <<SubSeq(cells, 1, colCount)>> \o Slices(SubSeq(cells, colCount + 1, Len(cells)), colCount)

\* RowLines with the separator pushed after every row
RowLinesSeparatorEveryRow(row, ri) ==
    LET cellTexts == [i \in DOMAIN row |-> CellText(row[i])]
        line == <<"| ">> \o Join(cellTexts, <<" | ">>) \o <<" |">>
        dashes == <<"| ">> \o Join([i \in DOMAIN row |-> <<"---">>], <<" | ">>) \o <<" |">>
    IN <<line, dashes>>

\* lines 189-198: the lines of row ri (0-based)
RowLines(row, ri) ==
    LET cellTexts == [i \in DOMAIN row |-> CellText(row[i])]
        line == <<"| ">> \o Join(cellTexts, <<" | ">>) \o <<" |">>
        dashes == <<"| ">> \o Join([i \in DOMAIN row |-> <<"---">>], <<" | ">>) \o <<" |">>
    IN IF ri = 0 THEN <<line, dashes>> ELSE <<line>>

\* lines 179-201
tableToMd(block) ==
    LET colCount == block.columns
    IN IF colCount = 0 \/ block.children = <<>> THEN <<>>
       ELSE LET rows == Slices(block.children, colCount)
            IN Join(Concat([ri \in DOMAIN rows |-> RowLines(rows[ri], ri - 1)]), <<"\n">>)

\* imageToMd recording an entry whether or not the block has an imageManager
imageToMdAlwaysRecords(block) ==
    IF block.image = <<>> THEN [md |-> <<>>, images |-> <<>>]
    ELSE LET img == block.image[1]
             name == IF Truthy(img.name) THEN img.name ELSE <<"image">>
         IN [md |-> <<"![">> \o name \o <<"](">>
                    \o (IF block.fetch THEN <<"__IMAGE_TOKEN__">> \o img.token ELSE <<>>)
                    \o <<")">>,
             images |-> <<[token |-> img.token, name |-> name, blockId |-> block.id]>>]

\* lines 367-381: the text and the entries pushed to images
imageToMd(block) ==
    IF block.image = <<>> THEN [md |-> <<>>, images |-> <<>>]
    ELSE LET img == block.image[1]
             name == IF Truthy(img.name) THEN img.name ELSE <<"image">>
         IN IF block.fetch
            THEN [md |-> <<"![">> \o name \o <<"](">> \o <<"__IMAGE_TOKEN__">> \o img.token \o <<")">>,
                  images |-> <<[token |-> img.token, name |-> name, blockId |-> block.id]>>]
            ELSE [md |-> <<"![">> \o name \o <<"](">> \o <<")">>, images |-> <<>>]

\* String.prototype.toLowerCase, on the language names that occur
LowerSym(c) == IF c = "JS" THEN "js" ELSE c

RawText(opList) == Concat([i \in DOMAIN opList |-> opList[i].insert])

\* lines 408-426
codeToMd(block) ==
    LET lang == [i \in DOMAIN block.language |-> LowerSym(block.language[i])]
        own == StripFinalNewline(block.allText)
        fromOps == IF own = <<>> /\ block.hasOps THEN StripFinalNewline(RawText(block.ops)) ELSE own
        childText(c) == IF StripFinalNewline(c.allText) # <<>> THEN StripFinalNewline(c.allText)
                        ELSE IF c.hasOps THEN RawText(c.ops) ELSE <<>>
        code == IF fromOps = <<>> /\ block.children # <<>>
                THEN StripFinalNewline(
                        Join([i \in DOMAIN block.children |-> childText(block.children[i])], <<"\n">>))
                ELSE fromOps
    IN <<"<fence>">> \o lang \o <<"\n">> \o code \o <<"\n", "<fence>">>

\* inner.split('\n').map(l => '> ' + l).join('\n')
QuoteLines(inner) == <<"> ">> \o ReplaceSym(inner, "\n", <<"\n", "> ">>)

HeadingMark(type) ==
    IF type = "heading1" THEN <<"# ">>
    ELSE IF type = "heading2" THEN <<"## ">>
    ELSE IF type = "heading3" THEN <<"### ">>
    ELSE IF type = "heading4" THEN <<"#### ">>
    ELSE IF type = "heading5" THEN <<"##### ">>
    ELSE IF type = "heading6" THEN <<"###### ">>
    ELSE <<>>

RECURSIVE blockToMd(_, _)
RECURSIVE RenderEach(_, _)
\* blocks.map(b => blockToMd(b, depth)): the texts, and the images pushed, in call order
RenderEach(blocks, depth) ==
    IF blocks = <<>> THEN [mds |-> <<>>, images |-> <<>>]
    ELSE LET first == blockToMd(Head(blocks), depth)
             rest == RenderEach(Tail(blocks), depth)
         IN [mds |-> <<first.md>> \o rest.mds, images |-> first.images \o rest.images]

\* .filter(s => s)
NonEmpty(mds) == SelectSeq(mds, LAMBDA m : m # <<>>)

\* lines 436-446 and 469-477: an item's line followed by its children's
ItemWithChildren(block, depth, prefix) ==
    LET own == prefix \o blockText(block)
    IN IF block.children # <<>>
       THEN LET sub == RenderEach(flatChildren(block.children, <<block.id>>), depth + 1)
                kept == NonEmpty(sub.mds)
            IN [md |-> IF kept # <<>> THEN own \o <<"\n">> \o Join(kept, <<"\n">>) ELSE own,
                images |-> sub.images]
       ELSE [md |-> own, images |-> <<>>]

\* lines 494-500: the columns of a grid, each column's children rendered as they are
GridColumns(cols, depth) ==
    LET col(i) == RenderEach(cols[i].children, depth)
    IN [md |-> Join([i \in DOMAIN cols |-> Join(col(i).mds, <<"\n", "\n">>)], <<"\n", "\n">>),
        images |-> Concat([i \in DOMAIN cols |-> col(i).images])]

\* lines 384-521 (sheet blocks, which read the spreadsheet component, are not
\* among the inputs)
blockToMd(block, depth) ==
    LET type == block.type
        text == blockText(block)
        plain(md) == [md |-> md, images |-> <<>>]
    IN CASE type = "page" ->
              LET r == RenderEach(flatChildren(block.children, <<block.id>>), 0)
              IN [md |-> Join(r.mds, <<"\n", "\n">>), images |-> r.images]
         [] type \in {"heading1", "heading2", "heading3", "heading4", "heading5", "heading6"} ->
              plain(HeadingMark(type) \o text)
         [] type \in {"heading7", "heading8", "heading9", "text"} -> plain(text)
         [] type = "divider" -> plain(<<"---">>)
         [] type = "code" -> plain(codeToMd(block))
         [] type \in {"quote_container", "callout"} ->
              LET r == RenderEach(flatChildren(block.children, <<block.id>>), depth)
              IN [md |-> QuoteLines(Join(r.mds, <<"\n">>)), images |-> r.images]
         [] type = "bullet" ->
              ItemWithChildren(block, depth, Repeat(<<"  ">>, depth) \o <<"- ">>)
         [] type = "ordered" ->
              ItemWithChildren(block, depth,
                               Repeat(<<"  ">>, depth) \o OrderedSeq(block) \o <<". ">>)
         [] type = "todo" ->
              plain(<<"- [">> \o (IF block.done THEN <<"x">> ELSE <<" ">>) \o <<"] ">> \o text)
         [] type = "table" -> plain(tableToMd(block))
         [] type = "image" -> imageToMd(block)
         [] type = "grid" -> GridColumns(block.children, depth)
         [] type = "iframe" ->
              plain(IF Truthy(block.url) THEN <<"[iframe](">> \o block.url \o <<")">> ELSE <<>>)
         [] type = "isv" ->
              plain(IF Truthy(block.data)
                    THEN <<"<fence>", "mermaid", "\n">> \o block.data \o <<"\n", "<fence>">> ELSE <<>>)
         [] OTHER -> plain(text)

IdleTree ==
    /\ tree = <<>> /\ nativeParent = FALSE /\ images = <<>> /\ flat1 = <<>> /\ flat2 = <<>>

\* resolve_and_download_images before it is called
IdleImg ==
    /\ tokens = <<>> /\ idx = 0 /\ img_count = 0 /\ url = <<>> /\ files = <<>> /\ attempts = <<>>

\* extract_via_cdp before it is called
IdleExtract ==
    /\ rootLoaded = FALSE /\ dom = "other" /\ hcPage = <<>> /\ doc_type = <<>>
    /\ script = <<>> /\ result = <<>> /\ outFile = <<>>

\* no text, no title
IdleText == md_text = <<>> /\ title = <<>>

\* batch_extract before it is called
IdleBatch == urls = <<>> /\ ready = TRUE /\ results = <<>> /\ summary = <<>>

\* wait_for_login before it is called
IdleLogin ==
    /\ lock = "free" /\ helper = "off" /\ page = "login" /\ current_url = <<>>
    /\ polls = 0 /\ login = <<>>
    /\ flag = "waiting" /\ login_ws_ref = "None"
    /\ cdp_id = 0 /\ inbox = <<>> /\ mainSent = 0 /\ helperSent = 0 /\ lastReturn = <<>>

\* _run_mcp_server before it is called
IdleMcp == stdin = <<>> /\ stdout = <<>> /\ stderr = <<>> /\ pending = <<>>

IdleSkill == output_path = <<>> /\ IdleBatch /\ IdleLogin /\ IdleMcp

(***************************************************************************)
(* Inputs of the Style Composer                                            *)
(***************************************************************************)
MaxAttrs == 2

StyleKeys == {"textHighlightBackground", "textHighlight", "strikethrough",
              "bold", "italic", "link"}

StyleEntries ==
    {<<"bold", <<"true">>>>, <<"italic", <<"true">>>>, <<"strikethrough", <<"true">>>>,
     <<"textHighlight", <<"red">>>>, <<"textHighlight", <<"inherit">>>>,
     <<"textHighlightBackground", <<"yellow">>>>,
     <<"link", <<"%41">>>>, <<"link", <<"%">>>>}

SpecialEntries ==
    {<<"fixEnter", <<"true">>>>, <<"inlineCode", <<"true">>>>,
     <<"equation", <<"E", "\n">>>>,
     <<"inline-component", <<"mention_doc", "T", "u2">>>>,
     <<"inline-component", <<"mention_doc">>>>,
     <<"inline-component", <<"{bad">>>>,
     <<"textHighlightBackground", <<"inherit">>>>}

Keys(attr) == {attr[i][1] : i \in DOMAIN attr}

RECURSIVE AttrLists(_, _)
\* attribute records of at most n entries over `entries`, in every key order
AttrLists(entries, n) ==
    IF n = 0 THEN {<<>>}
    ELSE LET shorter == AttrLists(entries, n - 1)
         IN shorter \cup
            {Append(a, e) : <<a, e>> \in
                {p \in shorter \X entries : p[2][1] \notin Keys(p[1])}}

OpTexts == {<<"a", "<">>, <<"\n">>}

OpAttrInputs ==
    AttrLists(StyleEntries, Cardinality(StyleKeys))
    \cup AttrLists(StyleEntries \cup SpecialEntries, MaxAttrs)

OpInputs ==
    {[insert |-> t, hasAttrs |-> TRUE, attributes |-> a] :
        t \in OpTexts, a \in OpAttrInputs}
    \cup {[insert |-> t, hasAttrs |-> FALSE, attributes |-> <<>>] : t \in OpTexts}

(***************************************************************************)
(* Specification of the Style Composer                                     *)
(***************************************************************************)
IdleOps == ops = <<>> /\ opsAfter = <<>>

InitOps ==
    /\ pc = "ops"
    /\ ops \in {<<o>> : o \in OpInputs}
    /\ opsAfter = <<>>
    /\ mdOut = <<>>
    /\ IdleTree /\ IdleImg /\ IdleExtract /\ IdleText /\ IdleSkill

\* blockText -> opsToMd(block.zoneState.content.ops)
CallOpsToMd ==
    /\ pc = "ops"
    /\ mdOut' = opsToMd(ops)
    /\ opsAfter' = [i \in DOMAIN ops |-> OpAfter(ops[i])]
    /\ pc' = "opsDone"
    /\ UNCHANGED <<skillVars, ops, treeVars, pipeVars>>

NextOps == CallOpsToMd

SpecOps == InitOps /\ [][NextOps]_vars

(***************************************************************************)
(* Inputs of the Block Renderer                                            *)
(***************************************************************************)
MaxSibs == 3
MaxKids == 2
MaxChain == 2

BlockNames == <<"b1", "b2", "b3", "b4", "b5", "b6", "b7", "b8", "b9", "b10",
                "b11", "b12", "b13", "b14", "b15", "b16", "b17", "b18">>

\* a block whose id is still to be given
Shape(type, children) == Block("", type, children)

RECURSIVE LabelBlocks(_, _)
\* the blocks with ids given in document order from BlockNames[n] on, each
\* block's text being its id; .next is the first name left
LabelBlocks(blocks, n) ==
    IF blocks = <<>> THEN [blocks |-> <<>>, next |-> n]
    ELSE LET b == Head(blocks)
             kids == LabelBlocks(b.children, n + 1)
             rest == LabelBlocks(Tail(blocks), kids.next)
             named == [b EXCEPT !.id = BlockNames[n],
                                !.ops = <<PlainOp(<<BlockNames[n]>>)>>,
                                !.children = kids.blocks]
         IN [blocks |-> <<named>> \o rest.blocks, next |-> rest.next]

Page(children) == LabelBlocks(<<Shape("page", children)>>, 1).blocks[1]

RECURSIVE ListsOver(_, _)
\* the lists of at most n members of S
ListsOver(S, n) ==
    IF n = 0 THEN {<<>>}
    ELSE LET shorter == ListsOver(S, n - 1)
         IN shorter \cup {Append(l, x) : l \in shorter, x \in S}

\* siblings for the numbering: ordered items without and with snapshot.seq,
\* and two kinds that interrupt a run
SiblingShapes ==
    {Shape("ordered", <<>>), [Shape("ordered", <<>>) EXCEPT !.seq = <<"5">>],
     [Shape("ordered", <<>>) EXCEPT !.seq = <<"auto">>],
     Shape("bullet", <<>>), Shape("text", <<>>)}

SiblingLists == ListsOver(SiblingShapes, MaxSibs) \ {<<>>}

\* the places a sibling list can sit in
NumberingShapes ==
    UNION {
        {<<l>> : l \in {l \in SiblingLists : TRUE}},
        {<<<<Shape(k, l)>>>> : k \in {"quote_container", "bullet", "ordered",
                                      "synced_source", "heading1", "text",
                                      "toggle_heading"},
                               l \in SiblingLists},
        {<<<<Shape("grid", <<Shape("grid_column", l)>>)>>>> : l \in SiblingLists}}

LeafShapes == {Shape("text", <<>>), Shape("bullet", <<>>)}

FlatKinds == {"synced_source", "heading1", "text", "toggle_heading", "bullet"}

FlatShapes == {Shape(k, c) : k \in FlatKinds, c \in ListsOver(LeafShapes, MaxKids)}

RECURSIVE ChainShapes(_)
\* references and headings nested n deep around a FlatShapes block
ChainShapes(n) ==
    IF n = 0 THEN FlatShapes
    ELSE FlatShapes \cup {Shape(k, <<c>>) : k \in {"synced_source", "heading1"},
                                           c \in ChainShapes(n - 1)}

FollowerLists ==
    {<<>>, <<Shape("text", <<>>)>>,
     <<Shape("synced_source", <<Shape("bullet", <<>>)>>)>>,
     <<Shape("heading1", <<Shape("text", <<>>)>>)>>}

FlattenShapes == {<<<<c>> \o f>> : c \in ChainShapes(MaxChain), f \in FollowerLists}

\* what a column of a grid holds: paragraphs, a reference to a paragraph, a
\* heading with a paragraph below it
ColumnLists ==
    ListsOver({Shape("text", <<>>), Shape("synced_source", <<Shape("text", <<>>)>>),
               Shape("heading1", <<Shape("text", <<>>)>>)}, MaxKids) \ {<<>>}

\* grids of two columns
GridShapes ==
    {<<<<Shape("grid", <<Shape("grid_column", a), Shape("grid_column", b)>>)>>>> :
        a \in ColumnLists, b \in ColumnLists}

TreeInputs ==
    {Page(l[1]) : l \in NumberingShapes \cup FlattenShapes \cup GridShapes}

(***************************************************************************)
(* Specification of the Block Renderer                                     *)
(***************************************************************************)
InitTree ==
    /\ pc = "tree"
    /\ tree \in TreeInputs
    /\ nativeParent \in BOOLEAN
    /\ mdOut = <<>>
    /\ images = <<>>
    /\ flat1 = <<>>
    /\ flat2 = <<>>
    /\ IdleOps /\ IdleImg /\ IdleExtract /\ IdleText /\ IdleSkill

\* line 523: const markdown = blockToMd(root, 0)
CallBlockToMd ==
    /\ pc = "tree"
    /\ mdOut' = blockToMd(tree, 0).md
    /\ images' = blockToMd(tree, 0).images
    /\ pc' = "rendered"
    /\ UNCHANGED <<skillVars, tree, nativeParent, flat1, flat2, opsVars, pipeVars>>

\* line 391: flatChildren(block.children || [], block)
CallFlatChildren ==
    /\ pc = "tree"
    /\ flat1' = flatChildren(tree.children, <<tree.id>>)
    /\ pc' = "flat1"
    /\ UNCHANGED <<skillVars, tree, nativeParent, mdOut, images, flat2, opsVars, pipeVars>>

\* the flattening pass applied to its own result
CallFlatChildrenAgain ==
    /\ pc = "flat1"
    /\ flat2' = flatChildren(flat1, <<tree.id>>)
    /\ pc' = "flat2"
    /\ UNCHANGED <<skillVars, tree, nativeParent, mdOut, images, flat1, opsVars, pipeVars>>

NextTree == CallBlockToMd \/ CallFlatChildren \/ CallFlatChildrenAgain

SpecTree == InitTree /\ [][NextTree]_vars

(***************************************************************************)
(* C1                                                                      *)
(***************************************************************************)
\* the attribute record read as a set of entries, whatever their order
EntrySet(op, key) ==
    op.hasAttrs /\ \E e \in Range(op.attributes) : e[1] = key /\ e[2] # <<>>

EntryValue(op, key) == (CHOOSE e \in Range(op.attributes) : e[1] = key)[2]

C1_Highlight(op) ==
    EntrySet(op, "textHighlightBackground")
    /\ EntryValue(op, "textHighlightBackground") # <<"inherit">>

C1_Foreground(op) ==
    ~C1_Highlight(op) /\ EntrySet(op, "textHighlight")
    /\ EntryValue(op, "textHighlight") # <<"inherit">>

C1_Mention(op) ==
    EntrySet(op, "inline-component") /\ IsMentionDoc(EntryValue(op, "inline-component"))

C1_Link(op) == EntrySet(op, "link") \/ C1_Mention(op)

C1_Covered(op) ==
    /\ ~OpSkipped(op)
    /\ ~EntrySet(op, "equation")
    /\ ~EntrySet(op, "inlineCode")

\* the opening markers, outermost first
C1_Openers(op) ==
    (IF C1_Link(op) THEN <<"[">> ELSE <<>>)
    \o (IF EntrySet(op, "italic") THEN <<"*">> ELSE <<>>)
    \o (IF EntrySet(op, "bold") THEN <<"**">> ELSE <<>>)
    \o (IF EntrySet(op, "strikethrough") THEN <<"~~">> ELSE <<>>)
    \o (IF C1_Highlight(op)
        THEN <<"<mark style=\"background:">> \o EntryValue(op, "textHighlightBackground")
             \o <<"\">">>
        ELSE IF C1_Foreground(op)
        THEN <<"<font color=\"">> \o EntryValue(op, "textHighlight") \o <<"\">">>
        ELSE <<>>)

\* the closing markers, innermost first, up to the link's "]("
C1_Closers(op) ==
    (IF C1_Highlight(op) THEN <<"</mark>">>
     ELSE IF C1_Foreground(op) THEN <<"</font>">> ELSE <<>>)
    \o (IF EntrySet(op, "strikethrough") THEN <<"~~">> ELSE <<>>)
    \o (IF EntrySet(op, "bold") THEN <<"**">> ELSE <<>>)
    \o (IF EntrySet(op, "italic") THEN <<"*">> ELSE <<>>)
    \o (IF C1_Link(op) THEN <<"](">> ELSE <<>>)

C1_NestedAs(out, open, close, linked) ==
    /\ Len(out) >= Len(open) + Len(close)
    /\ SubSeq(out, 1, Len(open)) = open
    /\ \E i \in Len(open)..Len(out) :
        /\ SubSeq(out, i + 1, i + Len(close)) = close
        /\ IF linked
           THEN i + Len(close) < Len(out) /\ out[Len(out)] = ")"
           ELSE i + Len(close) = Len(out)

Reverse(s) == [i \in DOMAIN s |-> s[Len(s) + 1 - i]]

\* C1: for a run that is not inline code, inline math or a padding marker, the
\* wrappers of the returned text nest, innermost to outermost, as colour span
\* (highlight before foreground), strike, bold, italic, link, whatever the
\* order of the entries of the attribute record; the record read in the
\* opposite order gives the same text.
C1_NestingOrder ==
    pc = "opsDone" =>
        \A i \in DOMAIN ops :
            LET op == ops[i]
            IN C1_Covered(op) =>
                /\ Len(ops) = 1 =>
                       C1_NestedAs(mdOut, C1_Openers(op), C1_Closers(op), C1_Link(op))
                /\ OpToMd([op EXCEPT !.attributes = Reverse(op.attributes)]) = OpToMd(op)

\* a run with link first and highlight last in its record, all six set
C1_Witness ==
    /\ pc = "opsDone"
    /\ ops = <<[insert |-> <<"a", "<">>, hasAttrs |-> TRUE,
                attributes |-> << <<"link", <<"%41">>>>, <<"italic", <<"true">>>>,
                                  <<"bold", <<"true">>>>, <<"strikethrough", <<"true">>>>,
                                  <<"textHighlight", <<"red">>>>,
                                  <<"textHighlightBackground", <<"yellow">>>> >>]>>
    /\ mdOut = <<"[", "*", "**", "~~", "<mark style=\"background:", "yellow", "\">",
                 "a", "&lt;", "</mark>", "~~", "**", "*", "](", "A", ")">>

(***************************************************************************)
(* C2                                                                      *)
(***************************************************************************)
RECURSIVE AllBlocks(_)
\* every block at or below the blocks of a list
AllBlocks(blocks) ==
    IF blocks = <<>> THEN {}
    ELSE {Head(blocks)} \cup AllBlocks(Head(blocks).children) \cup AllBlocks(Tail(blocks))

\* a block's text is its id, so the id marks its place in the text
Rendered(id) == \E i \in DOMAIN mdOut : mdOut[i] = id

\* the number in front of an ordered item's text
RenderedNumber(id) ==
    LET i == CHOOSE i \in DOMAIN mdOut : mdOut[i] = id IN mdOut[i - 2]

NumberAfter(sym) == NumStr((CHOOSE k \in DOMAIN DigitSym : DigitSym[k] = sym))

AfterInterruption(sibs, k) == k = 1 \/ sibs[k - 1].type # "ordered"

\* the 1-based place of sibs[k] in its run of ordered siblings
RunPosition(sibs, k) ==
    k - (CHOOSE j \in 0..(k - 1) :
            /\ j = 0 \/ sibs[j].type # "ordered"
            /\ \A m \in (j + 1)..(k - 1) : sibs[m].type = "ordered")

IsGridColumn(p) ==
    \E g \in AllBlocks(<<tree>>) :
        g.type = "grid" /\ \E j \in DOMAIN g.children : g.children[j].id = p.id

\* the claim as stated: 1 after an interruption, else the preceding number plus one
C2_AsStated ==
    pc = "rendered" =>
        \A p \in AllBlocks(<<tree>>) : \A k \in DOMAIN p.children :
            LET c == p.children[k]
            IN (c.type = "ordered" /\ Rendered(c.id)) =>
                IF AfterInterruption(p.children, k)
                THEN RenderedNumber(c.id) = "1"
                ELSE <<RenderedNumber(c.id)>> = NumberAfter(RenderedNumber(p.children[k - 1].id))

\* C2 (amended): an ordered item that carries no explicit sequence number and
\* whose parent reference is available (its parent's children went through
\* flatChildren, or the block model has block.parent) is numbered by its place
\* in its uninterrupted run of ordered siblings: 1 when it is the first child
\* or follows a sibling that is not an ordered item, otherwise one more than
\* the place of the preceding ordered sibling, which is that sibling's rendered
\* number when it has no explicit number either.
C2_RunNumbering ==
    pc = "rendered" =>
        \A p \in AllBlocks(<<tree>>) : \A k \in DOMAIN p.children :
            LET c == p.children[k]
            IN (/\ c.type = "ordered" /\ Rendered(c.id)
                /\ c.seq \in {<<>>, <<"auto">>}
                /\ nativeParent \/ ~IsGridColumn(p)) =>
                /\ <<RenderedNumber(c.id)>> = NumStr(RunPosition(p.children, k))
                /\ IF AfterInterruption(p.children, k)
                   THEN RenderedNumber(c.id) = "1"
                   ELSE p.children[k - 1].seq \in {<<>>, <<"auto">>} =>
                        <<RenderedNumber(c.id)>>
                            = NumberAfter(RenderedNumber(p.children[k - 1].id))

\* three items, the second one bulleted: 1. and 1.; and a run of three: 1. 2. 3.
C2_Witness ==
    /\ pc = "rendered"
    /\ \/ /\ [i \in DOMAIN tree.children |-> tree.children[i].type]
                = <<"ordered", "bullet", "ordered">>
          /\ \A i \in {1, 3} : tree.children[i].seq = <<>>
          /\ mdOut = <<"1", ". ", "b2", "\n", "\n", "- ", "b3", "\n", "\n", "1", ". ", "b4">>
       \/ /\ Len(tree.children) = 1 /\ tree.children[1].type = "quote_container"
          /\ mdOut = <<"> ", "1", ". ", "b3", "\n", "> ", "2", ". ", "b4", "\n", "> ",
                       "3", ". ", "b5">>

(***************************************************************************)
(* C3                                                                      *)
(***************************************************************************)
Ids(blocks) == [i \in DOMAIN blocks |-> blocks[i].id]

\* the claim as stated: a second pass changes nothing
C3_AsStated == pc = "flat2" => Ids(flat2) = Ids(flat1)

RECURSIVE HasContent(_)
\* some block of the list is no synced-reference, or a synced-reference with
\* such a block below it: the list does not flatten to nothing
HasContent(blocks) ==
    \E i \in DOMAIN blocks :
        blocks[i].type # "synced_source" \/ HasContent(blocks[i].children)

HasNestedBody(b) ==
    b.type \in HeadingTypes \cup {"text", "toggle_heading"} /\ HasContent(b.children)

\* C3 (amended): flattening is idempotent exactly when the flattened list holds
\* no heading, text or expandable-heading node whose children flatten to a
\* non-empty list; such a node is emitted with its children still attached and
\* a second pass appends them once more.  No synced-reference is left for a
\* second pass to expand.
C3_IdempotentUnlessNestedBody ==
    pc = "flat2" =>
        /\ (Ids(flat2) = Ids(flat1)) <=> (\A i \in DOMAIN flat1 : ~HasNestedBody(flat1[i]))
        /\ \A i \in DOMAIN flat1 : flat1[i].type # "synced_source"

\* a chain of two references unrolled, and unchanged by the second pass
C3_Witness ==
    /\ pc = "flat2"
    /\ \E i \in DOMAIN tree.children :
        /\ tree.children[i].type = "synced_source"
        /\ tree.children[i].children # <<>>
        /\ tree.children[i].children[1].type = "synced_source"
        /\ tree.children[i].children[1].children # <<>>
    /\ Len(flat1) >= 2
    /\ Ids(flat2) = Ids(flat1)

(***************************************************************************)
(* Tabular Renderer: inputs and specification                              *)
(***************************************************************************)
MaxCols == 3
MaxCells == 4

\* a paragraph of a cell, holding the given text
Paragraph(text) == [Block("p", "text", <<>>) EXCEPT !.ops = <<PlainOp(text)>>]

\* the cells told apart: no paragraph, one paragraph holding a bar and a line
\* break, two paragraphs
CellInputs ==
    { Block("cell", "table_cell", <<>>),
      Block("cell", "table_cell", <<Paragraph(<<"x", "|", "\n", "y">>)>>),
      Block("cell", "table_cell", <<Paragraph(<<"x">>), Paragraph(<<"y">>)>>) }

\* table blocks: snapshot.columns_id of 0..MaxCols entries, 0..MaxCells cells
TableInputs ==
    { [Block("t", "table", cells) EXCEPT !.columns = n] :
        n \in 0..MaxCols, cells \in ListsOver(CellInputs, MaxCells) }

InitTable ==
    /\ pc = "table"
    /\ tree \in TableInputs
    /\ nativeParent = FALSE
    /\ mdOut = <<>>
    /\ images = <<>>
    /\ flat1 = <<>>
    /\ flat2 = <<>>
    /\ IdleOps /\ IdleImg /\ IdleExtract /\ IdleText /\ IdleSkill

\* blockToMd case 'table': return tableToMd(block)
CallTableToMd ==
    /\ pc = "table"
    /\ mdOut' = tableToMd(tree)
    /\ pc' = "tableDone"
    /\ UNCHANGED <<skillVars, treeVars, opsVars, pipeVars>>

NextTable == CallTableToMd

SpecTable == InitTable /\ [][NextTable]_vars

(***************************************************************************)
(* C4                                                                      *)
(***************************************************************************)
RECURSIVE SplitLines(_)
\* the lines of a text: the pieces between its line breaks
SplitLines(s) ==
    IF \A i \in DOMAIN s : s[i] # "\n" THEN <<s>>
    ELSE LET k == CHOOSE i \in DOMAIN s : s[i] = "\n" /\ \A j \in 1..(i - 1) : s[j] # "\n"
         IN <<SubSeq(s, 1, k - 1)>> \o SplitLines(SubSeq(s, k + 1, Len(s)))

\* the output rows of a table: the lines of the text, none when it is empty
OutputRows(md) == IF md = <<>> THEN <<>> ELSE SplitLines(md)

\* the separator row of a table of n columns
SeparatorRow(n) ==
    <<"| ">> \o Join([i \in 1..n |-> <<"---">>], <<" | ">>) \o <<" |">>

\* the table rendered had N >= 1 columns and exactly M * N cells
WholeTable(M) ==
    /\ pc = "tableDone"
    /\ tree.columns >= 1
    /\ Len(tree.children) = M * tree.columns

\* C4 as stated: a table of N >= 1 columns and M * N cells, M >= 0, renders
\* M + 1 rows, one of them the separator row
C4_AsStated ==
    \A M \in 0..MaxCells :
        WholeTable(M) =>
            /\ Len(OutputRows(mdOut)) = M + 1
            /\ \E i \in DOMAIN OutputRows(mdOut) : OutputRows(mdOut)[i] = SeparatorRow(tree.columns)

\* C4 (amended): a table of N >= 1 columns and M * N cells renders exactly
\* M + 1 rows when M >= 1, the second of them the separator row, each of the
\* others one data row of N cells; a table with no cells (M = 0) renders the
\* empty text, without a separator row.
C4_RowCount ==
    \A M \in 0..MaxCells :
        WholeTable(M) =>
            IF M = 0 THEN mdOut = <<>>
            ELSE LET rows == OutputRows(mdOut)
                     N == tree.columns
                 IN /\ Len(rows) = M + 1
                    /\ rows[2] = SeparatorRow(N)
                    /\ \A r \in 1..M :
                         LET row == rows[IF r = 1 THEN 1 ELSE r + 1]
                             row_cells == SubSeq(tree.children, (r - 1) * N + 1, r * N)
                         IN row = <<"| ">>
                                  \o Join([i \in 1..N |-> CellText(row_cells[i])], <<" | ">>)
                                  \o <<" |">>

\* a table of two rows of two cells, with bars and line breaks in the cells
C4_Witness ==
    /\ WholeTable(2)
    /\ tree.columns = 2
    /\ Len(OutputRows(mdOut)) = 3
    /\ \E i \in DOMAIN tree.children : tree.children[i].children # <<>>
    /\ "\\|" \in Range(mdOut)

(***************************************************************************)
(* Image Placeholder Resolver (src/core/extract.py, lines 247-319)         *)
(***************************************************************************)
Marker == "__IMAGE_TOKEN__"

\* the symbols that \w matches: letters, digits, the underscore, and the
\* literals made of them only
WordSyms == {"a", "b", "c", "x", "y", "1", "2", "_", "image", Marker} \cup Range(BlockNames)

\* the longest prefix of s made of \w symbols
RECURSIVE WordRun(_)
WordRun(s) ==
    IF s = <<>> \/ Head(s) \notin WordSyms THEN <<>>
    ELSE <<Head(s)>> \o WordRun(Tail(s))

RECURSIVE findall(_)
\* line 249: re.findall(r'__IMAGE_TOKEN__(\w+)', md_text)
findall(s) ==
    IF s = <<>> THEN <<>>
    ELSE IF Head(s) = Marker /\ WordRun(Tail(s)) # <<>>
         THEN <<WordRun(Tail(s))>>
              \o findall(SubSeq(s, 2 + Len(WordRun(Tail(s))), Len(s)))
         ELSE findall(Tail(s))

\* old is a prefix of s
StartsWith(s, old) == Len(old) <= Len(s) /\ SubSeq(s, 1, Len(old)) = old

RECURSIVE StrReplaceFirst(_, _, _)
\* str.replace(old, new, 1): the first occurrence only
StrReplaceFirst(s, old, new) ==
    IF s = <<>> THEN <<>>
    ELSE IF StartsWith(s, old)
         THEN new \o SubSeq(s, Len(old) + 1, Len(s))
         ELSE <<Head(s)>> \o StrReplaceFirst(Tail(s), old, new)

RECURSIVE StrReplace(_, _, _)

\* str.replace(old, new), old not empty: every occurrence, left to right
StrReplace(s, old, new) ==
    IF s = <<>> THEN <<>>
    ELSE IF StartsWith(s, old)
         THEN new \o StrReplace(SubSeq(s, Len(old) + 1, Len(s)), old, new)
         ELSE <<Head(s)>> \o StrReplace(Tail(s), old, new)

\* the text of the placeholder of a token
Placeholder(token) == <<Marker>> \o token

RECURSIVE FindImages(_, _)
\* lines 265-272: findImage, over a list of blocks: the image blocks carrying
\* the token, in the order of the depth-first search
FindImages(blocks, token) ==
    IF blocks = <<>> THEN <<>>
    ELSE LET b == Head(blocks)
             here == IF b.type = "image" /\ b.image # <<>> /\ b.image[1].token = token
                     THEN <<b>> ELSE <<>>
         IN here \o (IF here # <<>> THEN <<>> ELSE FindImages(b.children, token))
                 \o FindImages(Tail(blocks), token)

\* lines 273-274: the block found has an imageManager to ask
Resolvable(root, token) ==
    LET found == FindImages(<<root>>, token)
    IN found # <<>> /\ found[1].fetch

\* the locators a page hands out
Urls == {<<"u">>, <<"u", ".jpeg", "?", ".gif">>, <<"u", ".webp">>}

\* lines 303-307: the extension chosen from the locator
ExtOf(u) ==
    IF ".jpg" \in Range(u) \/ ".jpeg" \in Range(u) THEN ".jpg"
    ELSE IF ".gif" \in Range(u) THEN ".gif"
    ELSE IF ".webp" \in Range(u) THEN ".webp"
    ELSE ".png"

\* line 308: fname = f"img_{count}{ext}"
FileName(n, u) == <<"img_">> \o NumStr(n) \o <<ExtOf(u)>>

\* line 254: os.path.basename(imgs_dir)
imgs_folder == "doc_imgs"

\* line 312: the text put in the place of the placeholder
FileRef(fname) == <<imgs_folder, "/">> \o fname

\* the loop position after an exception: the except clause is inside the loop
\* (lines 258, 314), so the next token follows
AfterExceptionAbort(i, n) == n

AfterException(i, n) == i + 1

\* the tokens taken from the last one back
TokenFromEnd == tokens[Len(tokens) - idx]

\* the token under way
Token == tokens[idx + 1]

Attempt(outcome) == Append(attempts, [token |-> Token, outcome |-> outcome])

\* resolve_and_download_images(ws, md_text, imgs_dir) is entered at pc =
\* "resolve" with md_text set, and returns (md_text, img_count) at "resolved"

\* lines 249-255: the tokens; nothing to do without any
FindTokens ==
    /\ pc = "resolve"
    /\ tokens' = findall(md_text)
    /\ idx' = 0
    /\ img_count' = 0
    /\ pc' = IF findall(md_text) = <<>> THEN "resolved" ELSE "loop"
    /\ UNCHANGED <<skillVars, md_text, url, files, attempts, mdOut, opsVars, treeVars, extractVars>>

\* lines 259-282, 314: the resolving js call raises
ResolveRaises ==
    /\ pc = "loop" /\ idx < Len(tokens)
    /\ attempts' = Attempt("raise")
    /\ idx' = AfterException(idx, Len(tokens))
    /\ UNCHANGED <<skillVars, pc, md_text, tokens, img_count, url, files, mdOut, opsVars, treeVars,
                   extractVars>>

\* lines 262-274, 277-281, 284-285: no PageMain, no image block with the
\* token, no imageManager, or no source handed to the callback: continue
ResolveNotFound ==
    /\ pc = "loop" /\ idx < Len(tokens)
    /\ attempts' = Attempt("not-found")
    /\ idx' = idx + 1
    /\ UNCHANGED <<skillVars, pc, md_text, tokens, img_count, url, files, mdOut, opsVars, treeVars,
                   extractVars>>

\* lines 275-282: the imageManager of the block found hands out a locator
ResolveUrl ==
    /\ pc = "loop" /\ idx < Len(tokens)
    /\ rootLoaded /\ Resolvable(tree, Token)
    /\ url' \in Urls
    /\ pc' = "fetch"
    /\ UNCHANGED <<skillVars, md_text, tokens, idx, img_count, files, attempts, mdOut, opsVars,
                   treeVars, extractVars>>

\* lines 287-299, 314: the fetching js call raises
FetchRaises ==
    /\ pc = "fetch"
    /\ attempts' = Attempt("raise")
    /\ idx' = AfterException(idx, Len(tokens))
    /\ pc' = "loop"
    /\ UNCHANGED <<skillVars, md_text, tokens, img_count, url, files, mdOut, opsVars, treeVars,
                   extractVars>>

\* FetchFails taking the placeholder out of the text
FetchFailsDropsPlaceholder ==
    /\ pc = "fetch"
    /\ attempts' = Attempt("fetch-failed")
    /\ md_text' = StrReplace(md_text, Placeholder(Token), <<>>)
    /\ idx' = idx + 1
    /\ pc' = "loop"
    /\ UNCHANGED <<skillVars, tokens, img_count, url, files, mdOut, opsVars, treeVars, extractVars>>

\* lines 289-298, 301: fetch fails in the page (b64 is None): nothing is done
FetchFails ==
    /\ pc = "fetch"
    /\ attempts' = Attempt("fetch-failed")
    /\ idx' = idx + 1
    /\ pc' = "loop"
    /\ UNCHANGED <<skillVars, md_text, tokens, img_count, url, files, mdOut, opsVars, treeVars,
                   extractVars>>

\* lines 301-313: the bytes are written and the placeholder is replaced
SaveImage ==
    /\ pc = "fetch"
    /\ files' = Append(files, FileName(img_count, url))
    /\ md_text' = StrReplace(md_text, Placeholder(Token), FileRef(FileName(img_count, url)))
    /\ img_count' = img_count + 1
    /\ attempts' = Attempt("ok")
    /\ idx' = idx + 1
    /\ pc' = "loop"
    /\ UNCHANGED <<skillVars, tokens, url, mdOut, opsVars, treeVars, extractVars>>

\* lines 317-319: return md_text, count
ReturnResolved ==
    /\ pc = "loop" /\ idx >= Len(tokens)
    /\ pc' = "resolved"
    /\ UNCHANGED <<skillVars, mdOut, opsVars, treeVars, pipeVars>>

ResolveSteps ==
    \/ FindTokens \/ ResolveRaises \/ ResolveNotFound \/ ResolveUrl
    \/ FetchRaises \/ FetchFails \/ SaveImage \/ ReturnResolved

(***************************************************************************)
(* Image Placeholder Resolver: inputs and specification                    *)
(***************************************************************************)
MaxImages == 2

\* an image block: snapshot.image.token, with or without an imageManager
Img(token, fetch) ==
    [Shape("image", <<>>) EXCEPT !.image = <<[token |-> token, name |-> <<>>]>>,
                                 !.fetch = fetch]

\* image blocks with a token, a longer token starting with it, a token with
\* a character outside \w, no token, no imageManager, no snapshot.image; an
\* image in a quote and one below a heading; a paragraph whose text holds a
\* placeholder
ImageShapes ==
    { Img(<<"a">>, TRUE), Img(<<"a", "b">>, TRUE), Img(<<"a", "-", "b">>, TRUE),
      Img(<<>>, TRUE), Img(<<"a">>, FALSE),
      [Img(<<>>, TRUE) EXCEPT !.image = <<>>],
      Shape("quote_container", <<Img(<<"a">>, TRUE)>>),
      Shape("heading1", <<Img(<<"a", "b">>, TRUE)>>),
      [Shape("text", <<>>) EXCEPT !.hasOps = FALSE, !.allText = <<Marker, "a", "\n">>] }

ImageTrees == {Page(l) : l \in ListsOver(ImageShapes, MaxImages)}

InitImg ==
    /\ pc = "tree"
    /\ tree \in ImageTrees
    /\ nativeParent = FALSE
    /\ mdOut = <<>>
    /\ images = <<>>
    /\ flat1 = <<>>
    /\ flat2 = <<>>
    /\ rootLoaded = TRUE /\ dom = "docx" /\ hcPage = <<>> /\ doc_type = <<>>
    /\ script = <<>> /\ result = <<>> /\ outFile = <<>>
    /\ IdleOps /\ IdleImg /\ IdleText /\ IdleSkill

\* extract.py line 411: the text of the script goes to the resolver
HandToResolver ==
    /\ pc = "rendered"
    /\ md_text' = mdOut
    /\ pc' = "resolve"
    /\ UNCHANGED <<skillVars, mdOut, opsVars, treeVars, tokens, idx, img_count, url, files, attempts,
                   extractVars>>

NextImg == CallBlockToMd \/ HandToResolver \/ ResolveSteps

SpecImg == InitImg /\ [][NextImg]_vars

(***************************************************************************)
(* C5, C6, C7                                                              *)
(***************************************************************************)
\* the number of places of s where sub occurs
CountOcc(sub, s) ==
    Cardinality({i \in 1..(Len(s) - Len(sub) + 1) : SubSeq(s, i, i + Len(sub) - 1) = sub})

\* the tokens recorded by rendering
Recorded == {images[i].token : i \in DOMAIN images}

\* the loop iterations that saved an image
Oks == {k \in DOMAIN attempts : attempts[k].outcome = "ok"}

\* resolve and fetch both succeeded for the token
Succeeded(t) == \E k \in Oks : attempts[k].token = t

\* the placeholder of a succeeded token is nowhere in the returned text
C5_AbsentAfter ==
    pc = "resolved" =>
        \A t \in Recorded : Succeeded(t) => CountOcc(Placeholder(t), md_text) = 0

\* C5 as stated: every recorded token occurs exactly once as a placeholder
\* in the text handed to the resolver, and the placeholder of a succeeded
\* token is absent from the returned text
C5_AsStated ==
    /\ pc = "resolve" => \A t \in Recorded : CountOcc(Placeholder(t), md_text) = 1
    /\ C5_AbsentAfter

\* the blocks whose own text holds the placeholder of t: image blocks that
\* record t or a token beginning with it, and blocks with such a text
Holders(t) ==
    {b \in AllBlocks(<<tree>>) :
        IF b.type = "image"
        THEN b.image # <<>> /\ b.fetch /\ StartsWith(b.image[1].token, t)
        ELSE CountOcc(Placeholder(t), blockText(b)) > 0}

\* C5 (amended): every recorded token occurs as a placeholder in the text
\* handed to the resolver at least once for each image block that recorded it,
\* and exactly once when a single block holds it; the placeholder of a
\* succeeded token is absent from the returned text
C5_RoundTrip ==
    /\ pc = "resolve" =>
         \A t \in Recorded :
            /\ CountOcc(Placeholder(t), md_text)
                 >= Cardinality({i \in DOMAIN images : images[i].token = t})
            /\ Cardinality(Holders(t)) = 1 => CountOcc(Placeholder(t), md_text) = 1
    /\ C5_AbsentAfter

\* two image blocks with one token, the second attempt alone succeeding
C5_Witness ==
    /\ pc = "resolved"
    /\ Len(images) = 2 /\ images[1].token = <<"a">> /\ images[2].token = <<"a">>
    /\ Len(attempts) = 2
    /\ attempts[1].outcome = "fetch-failed" /\ attempts[2].outcome = "ok"
    /\ CountOcc(Placeholder(<<"a">>), mdOut) = 2
    /\ CountOcc(Placeholder(<<"a">>), md_text) = 0
    /\ CountOcc(FileRef(<<"img_", "0", ".png">>), md_text) = 2

\* a loop iteration ended on a not-found resolver or a failed fetch
FailedAttempt ==
    /\ Len(attempts') = Len(attempts) + 1
    /\ attempts'[Len(attempts')].outcome \in {"not-found", "fetch-failed"}

\* C6: an iteration that ends on not-found or on a failed fetch leaves the
\* text, the files and the count as they were; a call with one token and a
\* not-found resolver returns its input text and count 0
C6_FailureLeavesPlaceholder ==
    /\ [][FailedAttempt =>
            /\ md_text' = md_text
            /\ files' = files
            /\ img_count' = img_count]_vars
    /\ [](pc = "resolved" /\ Len(tokens) = 1 /\ Len(attempts) = 1
             /\ attempts[1].outcome = "not-found"
           => md_text = mdOut /\ img_count = 0 /\ files = <<>>)

\* one token, resolver not-found: the text is returned as it came
C6_Witness ==
    /\ pc = "resolved"
    /\ tokens = <<<<"a">>>>
    /\ attempts = <<[token |-> <<"a">>, outcome |-> "not-found"]>>
    /\ md_text = mdOut
    /\ CountOcc(Placeholder(<<"a">>), md_text) = 1
    /\ img_count = 0

\* the file saved by iteration k
FileOf(k) == files[Cardinality({j \in Oks : j <= k})]

WhiteSyms == {" ", "\n", "\t"}

\* the number of leading "\n" of s
RECURSIVE NewlineRun(_)
NewlineRun(s) == IF s = <<>> \/ Head(s) # "\n" THEN 0 ELSE 1 + NewlineRun(Tail(s))

\* the number of leading spaces of s
RECURSIVE SpaceRun(_)
SpaceRun(s) == IF s = <<>> \/ Head(s) # " " THEN 0 ELSE 1 + SpaceRun(Tail(s))

RECURSIVE CollapseNewlines(_)
\* line 10: re.sub(r'\n{4,}', '\n\n\n', md_text)
CollapseNewlines(s) ==
    IF s = <<>> THEN <<>>
    ELSE IF Head(s) = "\n"
         THEN LET n == NewlineRun(s)
              IN Repeat(<<"\n">>, IF n >= 4 THEN 3 ELSE n)
                 \o CollapseNewlines(SubSeq(s, n + 1, Len(s)))
         ELSE <<Head(s)>> \o CollapseNewlines(Tail(s))

RECURSIVE StripLineEnds(_)
\* line 11: re.sub(r' +\n', '\n', md_text)
StripLineEnds(s) ==
    IF s = <<>> THEN <<>>
    ELSE IF Head(s) = " "
         THEN LET n == SpaceRun(s)
                  rest == SubSeq(s, n + 1, Len(s))
              IN IF rest # <<>> /\ Head(rest) = "\n"
                 THEN StripLineEnds(rest)
                 ELSE Repeat(<<" ">>, n) \o StripLineEnds(rest)
         ELSE <<Head(s)>> \o StripLineEnds(Tail(s))

RECURSIVE lstrip(_)
lstrip(s) == IF s # <<>> /\ Head(s) \in WhiteSyms THEN lstrip(Tail(s)) ELSE s

RECURSIVE rstrip(_)
rstrip(s) ==
    IF s # <<>> /\ s[Len(s)] \in WhiteSyms THEN rstrip(SubSeq(s, 1, Len(s) - 1)) ELSE s

\* str.strip()
strip(s) == rstrip(lstrip(s))

\* WithTitle without the look at the start of the text
WithTitleAlways(s, t) ==
    IF t # <<>> THEN <<"#", " ">> \o t \o <<"\n", "\n">> \o s ELSE s

\* lines 12-13: the title line is put first unless the text begins with '#'
WithTitle(s, t) ==
    IF t # <<>> /\ ~(strip(s) # <<>> /\ Head(strip(s)) = "#")
    THEN <<"#", " ">> \o t \o <<"\n", "\n">> \o s
    ELSE s

\* lines 8-14
cleanup_markdown(s, t) ==
    strip(WithTitle(StripLineEnds(CollapseNewlines(s)), t)) \o <<"\n">>

(***************************************************************************)
(* cleanup_markdown: inputs and specification                              *)
(***************************************************************************)
MaxLen == 7

TextChars == {"a", " ", "\n", "\t", "#"}

RECURSIVE TextsOver(_, _)
\* the texts of at most n characters of S
TextsOver(S, n) ==
    IF n = 0 THEN {<<>>}
    ELSE LET shorter == TextsOver(S, n - 1)
         IN shorter \cup {Append(l, x) : l \in shorter, x \in S}

TitleInputs == {<<>>, <<"t">>}

InitClean ==
    /\ pc = "clean"
    /\ md_text \in TextsOver(TextChars, MaxLen)
    /\ title \in TitleInputs
    /\ mdOut = <<>>
    /\ IdleOps /\ IdleTree /\ IdleImg /\ IdleExtract /\ IdleSkill

\* extract.py line 415: md_text = cleanup_markdown(md_text, title)
CallCleanup ==
    /\ pc = "clean"
    /\ mdOut' = cleanup_markdown(md_text, title)
    /\ pc' = "cleaned"
    /\ UNCHANGED <<skillVars, opsVars, treeVars, pipeVars>>

NextClean == CallCleanup

SpecClean == InitClean /\ [][NextClean]_vars

(***************************************************************************)
(* C10                                                                     *)
(***************************************************************************)
\* the longest run of "\n" in s
LongestNewlineRun(s) ==
    LET runs == {NewlineRun(SubSeq(s, i, Len(s))) : i \in DOMAIN s}
    IN IF s = <<>> THEN 0 ELSE CHOOSE n \in runs : \A m \in runs : m <= n

\* C10 as stated: the output of cleanup_markdown holds no run of four or
\* more newline characters (never more than 2 consecutive blank lines)
C10_AsStated == pc = "cleaned" => LongestNewlineRun(mdOut) <= 3

(***************************************************************************)
(* extract_via_cdp (src/core/extract.py, lines 326-423)                    *)
(* The documents of this specification hold paragraphs and images, so a    *)
(* symbol of the rendered text is one character, apart from the literals   *)
(* of an image reference, whose lengths SymLen gives.                      *)
(***************************************************************************)
\* line 390: the least length of a text that counts as content
MinContentLen == 10

\* the number of characters of a symbol
SymLen(c) ==
    IF c = Marker THEN 15
    ELSE IF c = "image" THEN 5
    ELSE IF c \in {"![", "]("} THEN 2
    ELSE 1

RECURSIVE len(_)
\* len(text)
len(s) == IF s = <<>> THEN 0 ELSE SymLen(Head(s)) + len(Tail(s))

\* feishu_cdp.py lines 46-49, 523-531: what the injected script returns
PageMainMissingAsEmpty(loaded, root) ==
    [success |-> TRUE,
     markdown |-> IF loaded THEN blockToMd(root, 0).md ELSE <<>>,
     images |-> IF loaded THEN blockToMd(root, 0).images ELSE <<>>,
     title |-> <<>>,
     blockCount |-> IF loaded THEN Len(root.children) ELSE 0]

PAGEMAIN_EXTRACT_JS(loaded, root) ==
    IF ~loaded THEN [error |-> <<"PageMain not found">>]
    ELSE [success |-> TRUE,
          markdown |-> blockToMd(root, 0).md,
          images |-> blockToMd(root, 0).images,
          title |-> StripFinalNewline(root.allText),
          blockCount |-> Len(root.children)]

\* lines 148-193: the markdown extract_via_pagemain returns, <<>> for None
extract_via_pagemain(res) ==
    IF "error" \in DOMAIN res THEN <<>> ELSE res.markdown

\* line 390 without the strip
ContentIsEmptyNoStrip(md) == md = <<>> \/ len(md) < MinContentLen

\* line 390: not md_text or len(md_text.strip()) < 10
ContentIsEmpty(md) == md = <<>> \/ len(strip(md)) < MinContentLen

\* the dict returned on a failure
Failure(msg) == [success |-> FALSE, error |-> msg]

\* lines 38-58: the answer of wait_for_doc_ready, <<>> for None
DocTypeOf(loaded, d) ==
    IF loaded THEN <<"pagemain">>
    ELSE IF d = "docx" THEN <<"docx">>
    ELSE IF d = "hc" THEN <<"hc">>
    ELSE <<>>

\* lines 333-363: Chrome does not start, or the login fails
ConnectFails ==
    /\ pc = "connect"
    /\ \E msg \in {"Chrome launch failed", "Login failed or timeout"} :
          result' = Failure(msg)
    /\ pc' = "returned"
    /\ UNCHANGED <<skillVars, mdOut, opsVars, treeVars, imgVars, rootLoaded, dom, hcPage, doc_type,
                   script, title, outFile>>

\* the page loads the document's tree while the call waits
RootLoads ==
    /\ pc \in {"connect", "extract"}
    /\ ~rootLoaded /\ tree # <<>>
    /\ rootLoaded' = TRUE
    /\ UNCHANGED <<skillVars, pc, mdOut, opsVars, treeVars, imgVars, dom, hcPage, doc_type, script,
                   title, result, outFile>>

\* lines 365-371: wait_for_doc_ready
WaitForDocReady ==
    /\ pc = "connect"
    /\ doc_type' = DocTypeOf(rootLoaded, dom)
    /\ IF DocTypeOf(rootLoaded, dom) = <<>>
       THEN /\ result' = Failure("Document load timeout")
            /\ pc' = "returned"
       ELSE /\ pc' = "extract"
            /\ UNCHANGED result
    /\ UNCHANGED <<skillVars, mdOut, opsVars, treeVars, imgVars, rootLoaded, dom, hcPage, script,
                   title, outFile>>

\* lines 381-383: the PageMain path
ExtractViaPagemain ==
    /\ pc = "extract"
    /\ doc_type \in {<<"pagemain">>, <<"docx">>}
    /\ script' = PAGEMAIN_EXTRACT_JS(rootLoaded, tree)
    /\ md_text' = extract_via_pagemain(PAGEMAIN_EXTRACT_JS(rootLoaded, tree))
    /\ pc' = "extracted"
    /\ UNCHANGED <<skillVars, mdOut, opsVars, treeVars, tokens, idx, img_count, url, files, attempts,
                   rootLoaded, dom, hcPage, doc_type, title, result, outFile>>

\* lines 384-387: the help-center path
ExtractHcPage ==
    /\ pc = "extract"
    /\ doc_type = <<"hc">>
    /\ md_text' = IF hcPage = <<>> THEN <<>>
                  ELSE <<"#", " ">> \o hcPage[1].title \o <<"\n", "\n">> \o hcPage[1].content
    /\ pc' = "extracted"
    /\ UNCHANGED <<skillVars, mdOut, opsVars, treeVars, tokens, idx, img_count, url, files, attempts,
                   extractVars>>

\* lines 390-392: nothing, or too little, was extracted
ContentEmpty ==
    /\ pc = "extracted"
    /\ ContentIsEmpty(md_text)
    /\ result' = Failure("Extracted content is empty")
    /\ pc' = "returned"
    /\ UNCHANGED <<skillVars, mdOut, opsVars, treeVars, imgVars, rootLoaded, dom, hcPage, doc_type,
                   script, title, outFile>>

\* lines 228-240, 395: get_doc_title: the root's text, else the page's title,
\* else "feishu_doc"; the resolver is called next (line 411)
GetDocTitle ==
    /\ pc = "extracted"
    /\ ~ContentIsEmpty(md_text)
    /\ \E t \in TitleInputs :
          LET found == IF rootLoaded /\ Truthy(tree.allText)
                       THEN StripFinalNewline(tree.allText) ELSE t
          IN title' = IF strip(found) = <<>> THEN <<"feishu_doc">> ELSE strip(found)
    /\ pc' = "resolve"
    /\ UNCHANGED <<skillVars, mdOut, opsVars, treeVars, imgVars, rootLoaded, dom, hcPage, doc_type,
                   script, result, outFile>>

\* line 416: open(output_path, "w") raises when the path names a directory
NamesDirectory(path) == path # <<>> /\ path[Len(path)] = "/"

\* lines 414-423: clean up, write the file, return
CleanupAndSave ==
    /\ pc = "resolved"
    /\ ~NamesDirectory(output_path)
    /\ md_text' = cleanup_markdown(md_text, title)
    /\ outFile' = <<cleanup_markdown(md_text, title)>>
    /\ result' = [success |-> TRUE, title |-> title, method |-> "cdp_pagemain",
                  image_count |-> img_count]
    /\ pc' = "returned"
    /\ UNCHANGED <<skillVars, mdOut, opsVars, treeVars, tokens, idx, img_count, url, files, attempts,
                   rootLoaded, dom, hcPage, doc_type, script, title>>

\* lines 415-416: the text is cleaned up, open() raises, nothing is returned
SaveRaises ==
    /\ pc = "resolved"
    /\ NamesDirectory(output_path)
    /\ md_text' = cleanup_markdown(md_text, title)
    /\ pc' = "raised"
    /\ UNCHANGED <<skillVars, mdOut, opsVars, treeVars, tokens, idx, img_count, url, files, attempts,
                   extractVars>>

\* content.count("|")
Pipes(s) == Cardinality({i \in DOMAIN s : s[i] \in {"|", "| ", " | ", " |", "\\|"}})

\* feishu_skill.py lines 186-200: extract hands on what extract_via_cdp
\* returned, with the statistics of the file written
ExtractReturns ==
    /\ pc = "returned"
    /\ result' = IF result.success
                 THEN result @@ [char_count |-> len(outFile[1]),
                                 table_pipes |-> Pipes(outFile[1]),
                                 has_tables |-> Pipes(outFile[1]) > 10]
                 ELSE result
    /\ pc' = "reported"
    /\ UNCHANGED <<skillVars, mdOut, opsVars, treeVars, imgVars, rootLoaded, dom, hcPage,
                   doc_type, script, title, outFile>>

\* feishu_skill.py lines 201-202: extract turns the exception into a failure
ExtractCatches ==
    /\ pc = "raised"
    /\ result' = Failure("Is a directory")
    /\ pc' = "reported"
    /\ UNCHANGED <<skillVars, mdOut, opsVars, treeVars, imgVars, rootLoaded, dom, hcPage,
                   doc_type, script, title, outFile>>

(***************************************************************************)
(* extract_via_cdp: inputs and specification                               *)
(***************************************************************************)
MaxBlocks == 2

\* a paragraph with the given text and no ops
Para(text) == [Shape("text", <<>>) EXCEPT !.hasOps = FALSE, !.allText = text]

\* paragraphs that are empty, short, as long as the least content, or made
\* of spaces only; an image
ContentShapes ==
    { Para(<<>>), Para(Repeat(<<"a">>, 3)), Para(Repeat(<<"a">>, 4)),
      Para(Repeat(<<"a">>, MinContentLen)), Para(Repeat(<<" ">>, MinContentLen)),
      Img(<<"a">>, TRUE) }

ContentTrees == {Page(l) : l \in ListsOver(ContentShapes, MaxBlocks)}

\* what extract_hc_page finds: nothing, or a title and a content
\* the output argument: None, a file, a directory
OutputPaths == {<<>>, <<"out", "/", "doc", ".md">>, <<"out", "/">>}

HcInputs ==
    {<<>>} \cup {<<[title |-> t, content |-> c]>> :
                    t \in TitleInputs, c \in {<<>>, Repeat(<<"a">>, MinContentLen)}}

InitExtract ==
    /\ pc = "connect"
    /\ dom \in {"docx", "hc", "other"}
    /\ tree \in IF dom = "hc" THEN {<<>>} ELSE ContentTrees \cup {<<>>}
    /\ rootLoaded \in IF tree = <<>> THEN {FALSE} ELSE BOOLEAN
    /\ hcPage \in IF dom = "hc" THEN HcInputs ELSE {<<>>}
    /\ doc_type = <<>> /\ script = <<>> /\ result = <<>> /\ outFile = <<>>
    /\ nativeParent = FALSE
    /\ mdOut = <<>> /\ images = <<>> /\ flat1 = <<>> /\ flat2 = <<>>
    /\ output_path \in OutputPaths
    /\ IdleOps /\ IdleImg /\ IdleText /\ IdleBatch /\ IdleLogin /\ IdleMcp

NextExtract ==
    \/ ConnectFails \/ RootLoads \/ WaitForDocReady
    \/ ExtractViaPagemain \/ ExtractHcPage \/ ContentEmpty \/ GetDocTitle
    \/ ResolveSteps \/ CleanupAndSave \/ SaveRaises
    \/ ExtractReturns \/ ExtractCatches

SpecExtract == InitExtract /\ [][NextExtract]_vars

(***************************************************************************)
(* C8, C9                                                                  *)
(***************************************************************************)
ScriptRan == DOMAIN script # {}

Returned == pc = "returned"

\* the call failed with an error value and wrote no Markdown file
FailedWithoutFile ==
    /\ ~result.success
    /\ "error" \in DOMAIN result
    /\ outFile = <<>>

\* C8 as stated: with the root tree absent, the script returns only an error
\* record, extract_via_pagemain returns no text, and extract_via_cdp returns
\* success=False without writing a Markdown file
C8_AsStated ==
    /\ ScriptRan /\ ~rootLoaded =>
          script = [error |-> <<"PageMain not found">>] /\ md_text = <<>>
    /\ Returned /\ ~rootLoaded => FailedWithoutFile

\* C8 (amended): with the root tree absent, the script returns only an error
\* record and extract_via_pagemain returns no text; extract_via_cdp returns
\* success=False and writes no Markdown file, unless the page is a
\* help-center page, which is converted from its DOM.
C8_RootAbsent ==
    /\ ScriptRan /\ ~rootLoaded =>
          script = [error |-> <<"PageMain not found">>] /\ md_text = <<>>
    /\ Returned /\ ~rootLoaded /\ doc_type # <<"hc">> => FailedWithoutFile

\* a page with the docx DOM whose tree never loads
C8_Witness ==
    /\ Returned
    /\ ~rootLoaded /\ doc_type = <<"docx">>
    /\ ScriptRan /\ "error" \in DOMAIN script
    /\ result = Failure("Extracted content is empty")
    /\ outFile = <<>>

\* the script ran on the root tree
RootObtained == ScriptRan /\ "markdown" \in DOMAIN script

EndsWithOneNewline(s) ==
    /\ s # <<>> /\ s[Len(s)] = "\n"
    /\ Len(s) >= 2 => s[Len(s) - 1] # "\n"

\* some line of the text ends with a space or a tab
LineEndsWithBlank(s) ==
    \E i \in DOMAIN s : s[i] \in {" ", "\t"} /\ (i = Len(s) \/ s[i + 1] = "\n")

\* C11 as stated: the output of cleanup_markdown ends with exactly one
\* newline character and none of its lines ends with a space or a tab
C11_AsStated ==
    pc = "cleaned" => EndsWithOneNewline(mdOut) /\ ~LineEndsWithBlank(mdOut)

\* the text as normalised by lines 10-11
Normalised(s) == StripLineEnds(CollapseNewlines(s))

\* the text begins with a heading marker
BeginsWithMarker(s) == strip(s) # <<>> /\ Head(strip(s)) = "#"

\* "# " + title
TitleLine(t) == <<"#", " ">> \o t

\* a title is supplied and the text does not begin with a heading marker
TitleDue == pc = "cleaned" /\ title # <<>> /\ ~BeginsWithMarker(md_text)

\* no title is supplied, or the text begins with a heading marker
TitleNotDue == pc = "cleaned" /\ (title = <<>> \/ BeginsWithMarker(md_text))

\* C12 as stated: with a title and no heading marker at the start of the
\* text, the output is "# " + title, one blank line, then the text;
\* otherwise nothing is put before the text
C12_AsStated ==
    /\ TitleDue =>
          mdOut = TitleLine(title) \o <<"\n", "\n">> \o rstrip(Normalised(md_text)) \o <<"\n">>
    /\ TitleNotDue => mdOut = strip(Normalised(md_text)) \o <<"\n">>

\* C12 (amended): with a title and no heading marker at the start of the
\* text, the output is "# " + title, one blank line, then the text, when the
\* text is not blank, and the title line alone when it is; otherwise nothing
\* is put before the text
C12_TitleRule ==
    /\ TitleDue =>
          IF strip(md_text) = <<>>
          THEN mdOut = strip(TitleLine(title)) \o <<"\n">>
          ELSE mdOut = TitleLine(title) \o <<"\n", "\n">> \o rstrip(Normalised(md_text))
                       \o <<"\n">>
    /\ TitleNotDue => mdOut = strip(Normalised(md_text)) \o <<"\n">>

\* a title put before a text, and a text that keeps its own heading
C12_Witness ==
    /\ pc = "cleaned"
    /\ title = <<"t">>
    /\ md_text = <<"a", " ", "\n", "#">>
    /\ mdOut = <<"#", " ", "t", "\n", "\n", "a", "\n", "#", "\n">>

(***************************************************************************)
(* C14                                                                     *)
(***************************************************************************)
\* the loop iterations made for a token
AttemptsOf(t) == {k \in DOMAIN attempts : attempts[k].token = t}

\* C14 as stated: when the call returns, no token was attempted more than
\* once, no token had more than one file written, and the count is the number
\* of distinct tokens whose placeholder was substituted
C14_AsStated ==
    pc = "resolved" =>
        /\ \A t \in Range(tokens) :
              /\ Cardinality(AttemptsOf(t)) <= 1
              /\ Cardinality(AttemptsOf(t) \cap Oks) <= 1
        /\ img_count = Cardinality({t \in Range(tokens) : Succeeded(t)})

(***************************************************************************)
(* C13                                                                     *)
(***************************************************************************)
\* C13 as stated: rendering leaves every inline run as it was handed in
C13_AsStated == pc = "opsDone" => opsAfter = ops

(***************************************************************************)
(* C16                                                                     *)
(***************************************************************************)
\* extract_via_cdp, or extract around it, has returned
Reported == pc \in {"returned", "reported"}

\* C16 as stated: a call that reports success=False has written neither the
\* Markdown file nor an image file
C16_AsStated == Reported /\ ~result.success => outFile = <<>> /\ files = <<>>

(***************************************************************************)
(* C15                                                                     *)
(***************************************************************************)
\* C15: the loop takes the tokens in the order their placeholders occur in
\* the text handed in, one iteration per placeholder; an iteration's resolve
\* call, and its fetch call if it makes one, are over before the next
\* iteration begins: while a fetch is under way every earlier token has its
\* iteration recorded and no later token has been touched.
C15_Sequential ==
    pc \in {"loop", "fetch", "resolved"} =>
        /\ tokens = findall(mdOut)
        /\ Len(attempts) = idx /\ idx <= Len(tokens)
        /\ \A k \in DOMAIN attempts : attempts[k].token = tokens[k]
        /\ pc = "fetch" => idx < Len(tokens) /\ url # <<>>
        /\ pc = "resolved" => idx = Len(tokens)

\* two different images, the first saved, the second not fetched
C15_Witness ==
    /\ pc = "resolved"
    /\ Len(tokens) = 2 /\ tokens[1] # tokens[2]
    /\ attempts = <<[token |-> tokens[1], outcome |-> "ok"],
                    [token |-> tokens[2], outcome |-> "fetch-failed"]>>

(***************************************************************************)
(* C18                                                                     *)
(***************************************************************************)
RECURSIVE CounterAt(_, _)
\* the counter after the first k siblings: one more on an ordered item, zero
\* on any other kind
CounterAt(sibs, k) ==
    IF k = 0 THEN 0
    ELSE IF sibs[k].type = "ordered" THEN CounterAt(sibs, k - 1) + 1 ELSE 0

AtLeastOne(n) == IF n < 1 THEN 1 ELSE n

\* C18: an ordered item with an explicit sequence number is rendered with
\* that number; with none and no parent reference (a child of a grid column
\* in a block model without block.parent) it is rendered with 1; otherwise
\* with the counter of the scan of its parent's children up to it, at least 1.
C18_ItemNumber ==
    pc = "rendered" =>
        \A p \in AllBlocks(<<tree>>) : \A k \in DOMAIN p.children :
            LET c == p.children[k]
            IN c.type = "ordered" /\ Rendered(c.id) =>
                <<RenderedNumber(c.id)>> =
                    IF c.seq \notin {<<>>, <<"auto">>} THEN c.seq
                    ELSE IF ~nativeParent /\ IsGridColumn(p) THEN <<"1">>
                    ELSE NumStr(AtLeastOne(CounterAt(p.children, k)))

\* an item numbered 5 by its own sequence number, followed by the second and
\* third of the run
C18_Witness ==
    /\ pc = "rendered"
    /\ [i \in DOMAIN tree.children |-> tree.children[i].type]
          = <<"ordered", "ordered", "ordered">>
    /\ [i \in DOMAIN tree.children |-> tree.children[i].seq] = <<<<"5">>, <<>>, <<>>>>
    /\ RenderedNumber("b2") = "5" /\ RenderedNumber("b3") = "2"
    /\ RenderedNumber("b4") = "3"

(***************************************************************************)
(* C20                                                                     *)
(***************************************************************************)
\* ids are given in document order: the place of an id in BlockNames
DocPlace(id) == CHOOSE n \in DOMAIN BlockNames : BlockNames[n] = id

RECURSIVE BehindRefs(_)
\* the blocks of a list that are no synced-reference, and those reached
\* from it through synced-references only
BehindRefs(blocks) ==
    IF blocks = <<>> THEN {}
    ELSE (IF Head(blocks).type = "synced_source"
          THEN BehindRefs(Head(blocks).children)
          ELSE {Head(blocks).id})
         \cup BehindRefs(Tail(blocks))

\* C20: the list returned holds no synced-reference; it holds every child
\* that is none, and every block reached through synced-references only, to
\* any depth; its blocks stand in document order, each once.
C20_Flattening ==
    pc \in {"flat1", "flat2"} =>
        /\ \A i \in DOMAIN flat1 : flat1[i].type # "synced_source"
        /\ BehindRefs(tree.children) \subseteq Range(Ids(flat1))
        /\ \A i, j \in DOMAIN flat1 :
              i < j => DocPlace(flat1[i].id) < DocPlace(flat1[j].id)

\* three references one inside the other, unrolled in front of a paragraph
C20_Witness ==
    /\ pc = "flat1"
    /\ Len(tree.children) = 2
    /\ \A id \in {"b2", "b3", "b4"} :
          \E b \in AllBlocks(<<tree>>) : b.id = id /\ b.type = "synced_source"
    /\ Ids(flat1) = <<"b5", "b6", "b7">>

(***************************************************************************)
(* batch_extract (feishu_skill.py)                                         *)
(***************************************************************************)
MaxUrls == 3

\* the URLs handed in: two documents, an address that is no Feishu
\* document, an empty string
UrlInputs == {"feishu.cn/docx/A", "feishu.cn/wiki/B", "example.com/C", ""}

\* lines 174-179: the URL is a non-empty string with a document path
ValidUrl(u) == u \in {"feishu.cn/docx/A", "feishu.cn/wiki/B"}

InitBatch ==
    /\ pc = "batch"
    /\ urls \in ListsOver(UrlInputs, MaxUrls)
    /\ ready \in BOOLEAN
    /\ results = <<>> /\ summary = <<>>
    /\ mdOut = <<>> /\ output_path = <<>>
    /\ IdleOps /\ IdleTree /\ IdleImg /\ IdleExtract /\ IdleText /\ IdleLogin /\ IdleMcp

\* lines 225-226: no list, or an empty one
BatchRejects ==
    /\ pc = "batch" /\ urls = <<>>
    /\ summary' = Failure("no URL list")
    /\ pc' = "batchDone"
    /\ UNCHANGED <<engineVars, output_path, loginVars, urls, ready, results>>

\* lines 229-231: ensure_ready, once
BatchNotReady ==
    /\ pc = "batch" /\ urls # <<>> /\ ~ready
    /\ summary' = Failure("environment not ready")
    /\ pc' = "batchDone"
    /\ UNCHANGED <<engineVars, output_path, loginVars, urls, ready, results>>

\* line 233: results = []
BatchStarts ==
    /\ pc = "batch" /\ urls # <<>> /\ ready
    /\ results' = <<>>
    /\ pc' = "batchLoop"
    /\ UNCHANGED <<engineVars, output_path, loginVars, urls, ready, summary>>

\* line 234: the URL of the iteration under way
Url == urls[Len(results) + 1]

InLoop == pc = "batchLoop" /\ Len(results) < Len(urls)

Failed(u, msg) == [url |-> u, success |-> FALSE, error |-> msg]

\* lines 174-179, 236-238: extract turns the URL down
ExtractRejectsUrl ==
    /\ InLoop /\ ~ValidUrl(Url)
    /\ results' = Append(results, Failed(Url, "not a Feishu document URL"))
    /\ UNCHANGED <<pc, engineVars, output_path, loginVars, urls, ready, summary>>

\* lines 182-202, 236-238: extract returns a failure (environment not ready,
\* extract_via_cdp failed, or an exception caught by extract)
ExtractFails ==
    /\ InLoop /\ ValidUrl(Url)
    /\ results' = Append(results, Failed(Url, "extraction failed"))
    /\ UNCHANGED <<pc, engineVars, output_path, loginVars, urls, ready, summary>>

\* lines 186-200, 236-238: extract returns the result of a conversion
ExtractSucceeds ==
    /\ InLoop /\ ValidUrl(Url)
    /\ results' = Append(results, [url |-> Url, success |-> TRUE])
    /\ UNCHANGED <<pc, engineVars, output_path, loginVars, urls, ready, summary>>

\* the dict batch_extract returns
Summary(res) ==
    LET succeeded == Cardinality({i \in DOMAIN res : res[i].success})
    IN [success |-> succeeded > 0, total |-> Len(urls), succeeded |-> succeeded,
        failed |-> Len(urls) - succeeded, results |-> res]

\* ExtractRaises ending the loop: what was collected so far is returned
ExtractRaisesAborts ==
    /\ InLoop /\ ValidUrl(Url)
    /\ summary' = Summary(results)
    /\ pc' = "batchDone"
    /\ UNCHANGED <<engineVars, output_path, loginVars, urls, ready, results>>

\* lines 235-240: extract raises (outside its own try), the loop records it
ExtractRaises ==
    /\ InLoop /\ ValidUrl(Url)
    /\ results' = Append(results, Failed(Url, "raised"))
    /\ UNCHANGED <<pc, engineVars, output_path, loginVars, urls, ready, summary>>

\* lines 242-249
BatchReturns ==
    /\ pc = "batchLoop" /\ Len(results) >= Len(urls)
    /\ summary' = Summary(results)
    /\ pc' = "batchDone"
    /\ UNCHANGED <<engineVars, output_path, loginVars, urls, ready, results>>

NextBatch ==
    \/ BatchRejects \/ BatchNotReady \/ BatchStarts
    \/ ExtractRejectsUrl \/ ExtractFails \/ ExtractSucceeds \/ ExtractRaises
    \/ BatchReturns

SpecBatch == InitBatch /\ [][NextBatch]_vars

(***************************************************************************)
(* C17                                                                     *)
(***************************************************************************)
\* one result per URL, in order, and counts that add up
OnePerUrl ==
    /\ "results" \in DOMAIN summary
    /\ Len(summary.results) = Len(urls)
    /\ \A i \in DOMAIN urls : summary.results[i].url = urls[i]
    /\ summary.succeeded
         = Cardinality({i \in DOMAIN summary.results : summary.results[i].success})
    /\ summary.failed
         = Cardinality({i \in DOMAIN summary.results : ~summary.results[i].success})
    /\ summary.succeeded + summary.failed = Len(urls)

\* C17 as stated: every call returns one result per input URL, in order
C17_AsStated == pc = "batchDone" => OnePerUrl

\* C17 (amended): when the URL list is not empty and ensure_ready reports the
\* environment ready, batch_extract takes the URLs in input order and returns
\* one result per URL in that order, a failure or an exception for one URL
\* not keeping any later one from being attempted, and succeeded + failed is
\* the number of URLs; with an empty list or an environment that is not
\* ready it attempts no URL and returns a single failure without results.
C17_BatchIsolation ==
    /\ pc = "batchLoop" => \A i \in DOMAIN results : results[i].url = urls[i]
    /\ pc = "batchDone" =>
          IF urls # <<>> /\ ready
          THEN OnePerUrl
          ELSE ~summary.success /\ "results" \notin DOMAIN summary /\ results = <<>>

\* the first URL raised, the second was turned down, the third converted
C17_Witness ==
    /\ pc = "batchDone"
    /\ urls = <<"feishu.cn/docx/A", "example.com/C", "feishu.cn/wiki/B">>
    /\ "results" \in DOMAIN summary
    /\ summary.results = <<Failed("feishu.cn/docx/A", "raised"),
                           Failed("example.com/C", "not a Feishu document URL"),
                           [url |-> "feishu.cn/wiki/B", success |-> TRUE]>>
    /\ summary.succeeded = 1 /\ summary.failed = 2

(***************************************************************************)
(* wait_for_login (core/login.py)                                          *)
(***************************************************************************)
MaxPolls == 2

\* the helper page is served while _cdp_id is below this
MaxCdpId == 6

\* how many messages the websocket holds at most
MaxInbox == 3

\* the helper thread between two requests: nothing served yet, or the page
\* last served, with a screenshot or without one
HelperAtRest == helper \in {"idle", "served", "blank"}

\* _login_status_flag == "logged_in": set on entry to _login_success
LoggedInFlag == flag = "logged_in"

\* an event, a message without an id: resp.get("id") is None
NoId == 0

\* core/cdp.py lines 21-23: the counter goes up, the command goes out; the
\* browser will answer it
CdpSend == cdp_id' = cdp_id + 1 /\ inbox' = Append(inbox, cdp_id + 1)

\* line 26: the message read is taken for the answer when its id is the
\* value _cdp_id has at that moment
CdpMatches(m) == m = cdp_id

\* what cdp hands back, with the id the call had sent
CdpReturn(by, sent, got) == [by |-> by, sent |-> sent, got |-> got]

\* lines 21-29 with no other thread on the websocket: the command is sent,
\* the messages waiting are read and dropped, its own answer is returned
CdpAlone ==
    /\ cdp_id' = cdp_id + 1
    /\ mainSent' = cdp_id + 1
    /\ inbox' = <<>>
    /\ lastReturn' = CdpReturn("main", cdp_id + 1, cdp_id + 1)
    /\ UNCHANGED helperSent

\* lines 21-24, then recv raises (the websocket's timeout): the command has
\* gone out, its answer comes later
CdpRaises ==
    /\ CdpSend
    /\ mainSent' = cdp_id + 1
    /\ UNCHANGED <<helperSent, lastReturn>>

\* _stop_login_helper leaving _login_ws_ref set
StopLoginHelperKeepsRef == helper' = "off" /\ UNCHANGED login_ws_ref

\* lines 116-121: _stop_login_helper
StopLoginHelper == helper' = "off" /\ login_ws_ref' = "None"

InitLogin ==
    /\ pc = "wait_for_login"
    /\ page \in {"login", "doc"}
    /\ lock = "free" /\ helper = "off" /\ current_url = <<>> /\ polls = 0 /\ login = <<>>
    /\ flag \in {"waiting", "logged_in", "timeout"} /\ login_ws_ref = "None"
    /\ cdp_id \in {2, 3} /\ inbox = <<>> /\ mainSent = 0 /\ helperSent = 0
    /\ lastReturn = <<>>
    /\ mdOut = <<>> /\ output_path = <<>>
    /\ IdleOps /\ IdleTree /\ IdleImg /\ IdleExtract /\ IdleText /\ IdleBatch /\ IdleMcp

\* the user completes the login: the tab goes to the document
UserLogsIn ==
    /\ page = "login" /\ pc \notin {"loginDone", "loginRaised"}
    /\ page' = "doc"
    /\ UNCHANGED <<pc, engineVars, output_path, batchVars, lock, helper, current_url, polls,
                   login, refVars, wsVars>>

\* the browser sends an event on the websocket
BrowserEvent ==
    /\ helper # "off" /\ Len(inbox) < MaxInbox /\ NoId \notin Range(inbox)
    /\ inbox' = Append(inbox, NoId)
    /\ UNCHANGED <<pc, engineVars, output_path, batchVars, lock, helper, page, current_url,
                   polls, login, refVars, cdp_id, mainSent, helperSent, lastReturn>>

\* lines 153-158: check_login says logged_in at once; the cookies are saved
AlreadyLoggedIn ==
    /\ pc = "wait_for_login" /\ page = "doc"
    /\ CdpAlone
    /\ login' = <<TRUE>>
    /\ pc' = "loginDone"
    /\ UNCHANGED <<engineVars, output_path, batchVars, lock, helper, page, current_url,
                   polls, refVars>>

\* lines 153, 160-164: check_login does not say logged_in; the websocket is
\* kept for the helper, the helper server is started
StartHelper ==
    /\ pc = "wait_for_login" /\ page = "login"
    /\ CdpAlone
    /\ login_ws_ref' = "ws"
    /\ flag' = "waiting"
    /\ helper' = "idle"
    /\ pc' = "sendHref"
    /\ UNCHANGED <<engineVars, output_path, batchVars, lock, page, current_url, polls,
                   login>>

\* line 167, cdp lines 21-23: js(ws, "location.href"), without the lock
SendFirstHref ==
    /\ pc = "sendHref"
    /\ CdpSend
    /\ mainSent' = cdp_id + 1
    /\ pc' = "recvHref"
    /\ UNCHANGED <<engineVars, output_path, batchVars, lock, helper, page, current_url,
                   polls, login, refVars, helperSent, lastReturn>>

\* cdp lines 24-26: a message that is not taken for the answer is dropped
MainDiscards ==
    /\ pc \in {"recvHref", "recvNav"}
    /\ inbox # <<>> /\ ~CdpMatches(Head(inbox))
    /\ inbox' = Tail(inbox)
    /\ UNCHANGED <<pc, engineVars, output_path, batchVars, lock, helper, page, current_url,
                   polls, login, refVars, cdp_id, mainSent, helperSent, lastReturn>>

\* cdp line 24: recv raises when nothing arrives within the websocket's
\* timeout; lines 167 and 172 are outside any try, wait_for_login raises
MainRecvTimesOut ==
    /\ pc \in {"recvHref", "recvNav"}
    /\ inbox = <<>>
    /\ pc' = "loginRaised"
    /\ UNCHANGED <<engineVars, output_path, batchVars, lock, helper, page, current_url,
                   polls, login, refVars, wsVars>>

\* lines 167-168, cdp lines 26-29: the answer; already_on_login is read
\* from it
RecvFirstHref ==
    /\ pc = "recvHref"
    /\ inbox # <<>> /\ CdpMatches(Head(inbox))
    /\ inbox' = Tail(inbox)
    /\ lastReturn' = CdpReturn("main", mainSent, Head(inbox))
    /\ current_url' = IF Head(inbox) = mainSent THEN <<page>> ELSE <<"">>
    /\ pc' = IF Head(inbox) = mainSent /\ page = "login" THEN "poll" ELSE "sendNav"
    /\ UNCHANGED <<engineVars, output_path, batchVars, lock, helper, page, polls, login,
                   refVars, cdp_id, mainSent, helperSent>>

\* line 172, cdp lines 21-23: the tab is sent to the login page, without
\* the lock
SendNavigate ==
    /\ pc = "sendNav"
    /\ CdpSend
    /\ mainSent' = cdp_id + 1
    /\ pc' = "recvNav"
    /\ UNCHANGED <<engineVars, output_path, batchVars, lock, helper, page, current_url,
                   polls, login, refVars, helperSent, lastReturn>>

\* lines 172-177, cdp lines 26-29: the answer; the helper tab is opened
RecvNavigate ==
    /\ pc = "recvNav"
    /\ inbox # <<>> /\ CdpMatches(Head(inbox))
    /\ inbox' = Tail(inbox)
    /\ lastReturn' = CdpReturn("main", mainSent, Head(inbox))
    /\ pc' = "poll"
    /\ UNCHANGED <<engineVars, output_path, batchVars, lock, helper, page, current_url,
                   polls, login, refVars, cdp_id, mainSent, helperSent>>

\* lines 195-196: the loop goes on while the timeout has not passed
PollBegins ==
    /\ pc = "poll" /\ polls < MaxPolls
    /\ polls' = polls + 1
    /\ pc' = "hrefLock"
    /\ UNCHANGED <<engineVars, output_path, batchVars, lock, helper, page, current_url,
                   login, refVars, wsVars>>

\* lines 216-222: timeout; shutdown() waits for the request being served
PollTimesOut ==
    /\ pc = "poll" /\ polls >= MaxPolls
    /\ HelperAtRest
    /\ flag' = "timeout"
    /\ StopLoginHelper
    /\ login' = <<FALSE>>
    /\ pc' = "loginDone"
    /\ UNCHANGED <<engineVars, output_path, batchVars, lock, page, current_url, polls,
                   wsVars>>

\* line 201: with _login_ws_lock
AcquireForHref ==
    /\ pc = "hrefLock" /\ lock = "free"
    /\ lock' = "main"
    /\ pc' = "href"
    /\ UNCHANGED <<engineVars, output_path, batchVars, helper, page, current_url, polls,
                   login, refVars, wsVars>>

\* lines 202-205: location.href is read, the lock released; a document URL
\* leads to _login_success, which sets the flag first (line 229)
ReadHref ==
    /\ pc = "href"
    /\ CdpAlone
    /\ current_url' = <<page>>
    /\ lock' = "free"
    /\ flag' = IF page = "doc" THEN "logged_in" ELSE flag
    /\ pc' = IF page = "doc" THEN "success" ELSE "checkLock"
    /\ UNCHANGED <<engineVars, output_path, batchVars, helper, page, polls, login,
                   login_ws_ref>>

\* lines 202, 210-211: js raises; the with statement releases the lock
HrefRaises ==
    /\ pc = "href" /\ Len(inbox) < MaxInbox
    /\ CdpRaises
    /\ lock' = "free"
    /\ pc' = "poll"
    /\ UNCHANGED <<engineVars, output_path, batchVars, helper, page, current_url, polls,
                   login, refVars>>

\* line 207: with _login_ws_lock
AcquireForCheck ==
    /\ pc = "checkLock" /\ lock = "free"
    /\ lock' = "main"
    /\ pc' = "check"
    /\ UNCHANGED <<engineVars, output_path, batchVars, helper, page, current_url, polls,
                   login, refVars, wsVars>>

\* lines 208-209: check_login says logged_in; _login_success is called inside
\* the with block, the lock still held
CheckLoggedIn ==
    /\ pc = "check" /\ page = "doc"
    /\ CdpAlone
    /\ flag' = "logged_in"
    /\ pc' = "success"
    /\ UNCHANGED <<engineVars, output_path, batchVars, lock, helper, page, current_url,
                   polls, login, login_ws_ref>>

\* lines 207-208: not logged in; the lock is released, the loop goes on
CheckNotLoggedIn ==
    /\ pc = "check" /\ page = "login"
    /\ CdpAlone
    /\ lock' = "free"
    /\ pc' = "poll"
    /\ UNCHANGED <<engineVars, output_path, batchVars, helper, page, current_url, polls,
                   login, refVars>>

\* lines 208, 210-211: check_login raises
CheckRaises ==
    /\ pc = "check" /\ Len(inbox) < MaxInbox
    /\ CdpRaises
    /\ lock' = "free"
    /\ pc' = "poll"
    /\ UNCHANGED <<engineVars, output_path, batchVars, helper, page, current_url, polls,
                   login, refVars>>

\* line 230: _login_success: with _login_ws_lock, a lock that is not reentrant
SuccessAcquires ==
    /\ pc = "success" /\ lock = "free"
    /\ lock' = "main"
    /\ pc' = "saving"
    /\ UNCHANGED <<engineVars, output_path, batchVars, helper, page, current_url, polls,
                   login, refVars, wsVars>>

\* lines 231-232: save_cookies, the lock released
SaveCookies ==
    /\ pc = "saving"
    /\ CdpAlone
    /\ lock' = "free"
    /\ pc' = "stopping"
    /\ UNCHANGED <<engineVars, output_path, batchVars, helper, page, current_url, polls,
                   login, refVars>>

\* lines 231, 205, 210-211: save_cookies raises; the with statement releases
\* the lock, the try of the polling loop takes the exception
SaveCookiesRaises ==
    /\ pc = "saving" /\ Len(inbox) < MaxInbox
    /\ CdpRaises
    /\ lock' = "free"
    /\ pc' = "poll"
    /\ UNCHANGED <<engineVars, output_path, batchVars, helper, page, current_url, polls,
                   login, refVars>>

\* lines 233-236: the helper is stopped, True is returned
StopHelper ==
    /\ pc = "stopping" /\ HelperAtRest
    /\ StopLoginHelper
    /\ login' = <<TRUE>>
    /\ pc' = "loginDone"
    /\ UNCHANGED <<engineVars, output_path, batchVars, lock, page, current_url, polls,
                   flag, wsVars>>

\* lines 96-104: a GET on the helper server; the helper page asks again
\* every 3 seconds
HelperRequest ==
    /\ HelperAtRest /\ ~LoggedInFlag /\ cdp_id < MaxCdpId
    /\ helper' = "waiting"
    /\ UNCHANGED <<pc, engineVars, output_path, batchVars, lock, page, current_url, polls,
                   login, refVars, wsVars>>

\* line 77, cdp lines 21-23: _login_ws_lock.acquire(timeout=3) succeeds, the
\* screenshot command is sent
HelperAcquires ==
    /\ helper = "waiting" /\ lock = "free"
    /\ lock' = "helper"
    /\ CdpSend
    /\ helperSent' = cdp_id + 1
    /\ helper' = "shooting"
    /\ UNCHANGED <<pc, engineVars, output_path, batchVars, page, current_url, polls, login,
                   refVars, mainSent, lastReturn>>

\* lines 77-78, 104: the acquire times out, the page goes out without a
\* screenshot
HelperTimesOut ==
    /\ helper = "waiting" /\ lock # "free"
    /\ helper' = "blank"
    /\ UNCHANGED <<pc, engineVars, output_path, batchVars, lock, page, current_url, polls,
                   login, refVars, wsVars>>

\* cdp lines 24-26: a message that is not taken for the answer is dropped
HelperDiscards ==
    /\ helper = "shooting"
    /\ inbox # <<>> /\ ~CdpMatches(Head(inbox))
    /\ inbox' = Tail(inbox)
    /\ UNCHANGED <<pc, engineVars, output_path, batchVars, lock, helper, page, current_url,
                   polls, login, refVars, cdp_id, mainSent, helperSent, lastReturn>>

\* lines 79-87, 104, cdp lines 26-29: the answer; the lock is released, the
\* page goes out
HelperShot ==
    /\ helper = "shooting"
    /\ inbox # <<>> /\ CdpMatches(Head(inbox))
    /\ inbox' = Tail(inbox)
    /\ lastReturn' = CdpReturn("helper", helperSent, Head(inbox))
    /\ lock' = "free"
    /\ helper' = "served"
    /\ UNCHANGED <<pc, engineVars, output_path, batchVars, page, current_url, polls, login,
                   refVars, cdp_id, mainSent, helperSent>>

\* lines 83-87, cdp line 24: recv raises when nothing arrives within the
\* websocket's timeout; the lock is released, the page goes out without a
\* screenshot
HelperRecvTimesOut ==
    /\ helper = "shooting"
    /\ inbox = <<>>
    /\ lock' = "free"
    /\ helper' = "blank"
    /\ UNCHANGED <<pc, engineVars, output_path, batchVars, page, current_url, polls, login,
                   refVars, wsVars>>

NextLogin ==
    \/ UserLogsIn \/ BrowserEvent \/ AlreadyLoggedIn \/ StartHelper
    \/ SendFirstHref \/ MainDiscards \/ MainRecvTimesOut \/ RecvFirstHref
    \/ SendNavigate \/ RecvNavigate
    \/ PollBegins \/ PollTimesOut
    \/ AcquireForHref \/ ReadHref \/ HrefRaises
    \/ AcquireForCheck \/ CheckLoggedIn \/ CheckNotLoggedIn \/ CheckRaises
    \/ SuccessAcquires \/ SaveCookies \/ SaveCookiesRaises \/ StopHelper
    \/ HelperRequest \/ HelperAcquires \/ HelperTimesOut \/ HelperDiscards \/ HelperShot
    \/ HelperRecvTimesOut

SpecLogin == InitLogin /\ [][NextLogin]_vars

(***************************************************************************)
(* C19                                                                     *)
(***************************************************************************)
\* the thread of wait_for_login waits for _login_ws_lock while it holds it
WaitsForOwnLock == pc = "success" /\ lock = "main"

\* C19 as stated: on no path does wait_for_login wait for the lock it holds
C19_AsStated == ~WaitsForOwnLock

(***************************************************************************)
(* C21                                                                     *)
(***************************************************************************)
\* the columns of the grids of the tree
Columns ==
    {c \in AllBlocks(<<tree>>) : c.type = "grid_column"}

\* C21 as stated: every block the flattening pass yields for a column's
\* children is rendered
C21_AsStated ==
    pc = "rendered" =>
        \A c \in Columns :
            \A id \in Range(Ids(flatChildren(c.children, <<c.id>>))) : Rendered(id)

(***************************************************************************)
(* C22                                                                     *)
(***************************************************************************)
ImageBlocks == {b \in AllBlocks(<<tree>>) : b.type = "image"}

\* the entries are those of the blocks of S, one each, in document order
ListedExactly(S) ==
    /\ Len(images) = Cardinality(S)
    /\ \A i \in DOMAIN images :
          \E b \in S : images[i].blockId = b.id /\ images[i].token = b.image[1].token
    /\ \A i, j \in DOMAIN images :
          i < j => DocPlace(images[i].blockId) < DocPlace(images[j].blockId)

\* every recorded token stands in the text as the target of a reference
TokensInText ==
    \A i \in DOMAIN images :
        CountOcc(<<"](", Marker>> \o images[i].token \o <<")">>, mdOut) > 0

\* an image block with image data and no fetch capability gives a reference
\* with an empty target and no entry
NoFetchEmptyTarget ==
    \A b \in ImageBlocks :
        b.image # <<>> /\ ~b.fetch =>
            /\ CountOcc(<<"![", "image", "](", ")">>, mdOut) > 0
            /\ \A i \in DOMAIN images : images[i].blockId # b.id

\* C22 as stated: one entry per image block with a fetch capability
C22_AsStated ==
    pc # "tree" => ListedExactly({b \in ImageBlocks : b.fetch})

\* C22 (amended): after rendering, the images list has exactly one entry per
\* rendered image block that carries image data (snapshot.image) and has a
\* fetch capability, in document order, and each recorded token occurs in the
\* text as a placeholder; an image block with image data and no fetch
\* capability yields an image reference with an empty target and no entry; an
\* image block without image data yields no text and no entry.
C22_SideList ==
    pc # "tree" =>
        /\ ListedExactly({b \in ImageBlocks : b.fetch /\ b.image # <<>>})
        /\ TokensInText
        /\ NoFetchEmptyTarget
        /\ (\A b \in ImageBlocks : b.image = <<>>) =>
               CountOcc(<<"![">>, mdOut) = 0 /\ images = <<>>

\* an image with a fetch capability in front of one without
C22_Witness ==
    /\ pc = "rendered"
    /\ images = <<[token |-> <<"a">>, name |-> <<"image">>, blockId |-> "b2"]>>
    /\ mdOut = <<"![", "image", "](", Marker, "a", ")", "\n", "\n",
                 "![", "image", "](", ")">>

(***************************************************************************)
(* C23                                                                     *)
(***************************************************************************)
\* the cells of an output row: one more than the bars between cells
CellsOfRow(row) == CountOcc(<<" | ">>, row) + 1

\* the table rendered had N >= 1 columns and a number of cells that is no
\* multiple of N
RaggedTable ==
    /\ pc = "tableDone"
    /\ tree.columns >= 1
    /\ Len(tree.children) % tree.columns # 0

\* C23 as stated: for such a table every data row has as many cells as the
\* separator row
C23_AsStated ==
    RaggedTable =>
        LET rows == OutputRows(mdOut)
        IN /\ Len(rows) >= 2
           /\ \A i \in DOMAIN rows : CellsOfRow(rows[i]) = CellsOfRow(rows[2])

(***************************************************************************)
(* C24                                                                     *)
(***************************************************************************)
\* the run carries a document mention and goes through the standard pipeline
MentionRun(op) == C1_Covered(op) /\ C1_Mention(op)

\* the wrappers of the run around the mention's display text alone, linked
\* to the mention's URI
MentionLink(op) ==
    LET ic == EntryValue(op, "inline-component")
    IN StyleWrap(SetAttr(AttrOf(op), "link", <<ic[3]>>), <<ic[2]>>)

\* C24 as stated: the label of the link is the mention's display text, in
\* place of the run's own text
C24_AsStated ==
    pc = "opsDone" => \A i \in DOMAIN ops : MentionRun(ops[i]) => mdOut = MentionLink(ops[i])

(***************************************************************************)
(* The MCP server over stdio (feishu_skill.py, _run_mcp_server)            *)
(*                                                                         *)
(* A line on a stream is a record [kind, text]: kind "rpc" for a JSON-RPC  *)
(* response, "log" for a log line.  sys.stdout is the text wrapper that    *)
(* core/config.py puts around the buffer of file descriptor 1; mcp_stdout  *)
(* is a second wrapper around the same buffer.                             *)
(***************************************************************************)
MaxRequests == 3

\* sys.stdout holds what print() writes until ChunkLines lines are pending
\* (io.TextIOWrapper without line_buffering: 8192 bytes), then hands all of
\* it to the buffer of file descriptor 1
ChunkLines == 2

Rpc(t) == [kind |-> "rpc", text |-> t]
Log(t) == [kind |-> "log", text |-> t]

\* the request lines: a method answered without a tool, the extract tool for
\* a document in a new tab and in a tab found open, a notification, a line
\* that is no JSON
Requests == {"ping", "extractNew", "extractReuse", "notification", "badjson"}

\* the lines extract_via_cdp prints for a request (feishu_cdp.py 1065, 1152)
ExtractPrints(req) ==
    CASE req = "extractReuse" -> <<Log("[CDP] tab"), Log("[CDP] output")>>
      [] req = "extractNew" -> <<Log("[CDP] output")>>
      [] OTHER -> <<>>

\* print(line) on sys.stdout: <<pending, written to file descriptor 1>>
RECURSIVE PrintAll(_, _, _)
PrintAll(lines, pend, out) ==
    IF lines = <<>> THEN <<pend, out>>
    ELSE LET p == Append(pend, Head(lines))
         IN IF Len(p) >= ChunkLines
            THEN PrintAll(Tail(lines), <<>>, out \o p)
            ELSE PrintAll(Tail(lines), p, out)

InitMcp ==
    /\ pc = "mcp"
    /\ stdin \in ListsOver(Requests, MaxRequests)
    /\ stdout = <<>> /\ stderr = <<>> /\ pending = <<>>
    /\ mdOut = <<>> /\ output_path = <<>>
    /\ IdleOps /\ IdleTree /\ IdleImg /\ IdleExtract /\ IdleText /\ IdleBatch /\ IdleLogin

mcpRest == <<mdOut, opsVars, treeVars, pipeVars, output_path, batchVars, loginVars>>

\* line 619: the start-up message
McpStarts ==
    /\ pc = "mcp"
    /\ stderr' = Append(stderr, Log("[MCP] start"))
    /\ pc' = "mcpLoop"
    /\ UNCHANGED <<mcpRest, stdin, stdout, pending>>

\* lines 622-632, 552-553: a request handle_request settles without calling
\* a tool; a notification has no response, nothing is written for it
McpAnswers ==
    /\ pc = "mcpLoop" /\ stdin # <<>> /\ Head(stdin) \in {"ping", "notification"}
    /\ stdin' = Tail(stdin)
    /\ stdout' = IF Head(stdin) = "ping" THEN Append(stdout, Rpc(Head(stdin))) ELSE stdout
    /\ UNCHANGED <<pc, mcpRest, stderr, pending>>

\* lines 622-632, 569-577, 600-602: tools/call of feishu_extract; the
\* extraction prints, then the response is written and flushed
McpCallsExtract ==
    /\ pc = "mcpLoop" /\ stdin # <<>> /\ ExtractPrints(Head(stdin)) # <<>>
    /\ LET printed == PrintAll(ExtractPrints(Head(stdin)), pending, stdout)
       IN /\ pending' = printed[1]
          /\ stdout' = Append(printed[2], Rpc(Head(stdin)))
    /\ stdin' = Tail(stdin)
    /\ UNCHANGED <<pc, mcpRest, stderr>>

\* lines 633-634: json.loads raises
McpBadJson ==
    /\ pc = "mcpLoop" /\ stdin # <<>> /\ Head(stdin) = "badjson"
    /\ stdin' = Tail(stdin)
    /\ stderr' = Append(stderr, Log("[MCP] JSON"))
    /\ UNCHANGED <<pc, mcpRest, stdout, pending>>

\* lines 623-624: end of input; the server returns
McpEof ==
    /\ pc = "mcpLoop" /\ stdin = <<>>
    /\ pc' = "mcpDone"
    /\ UNCHANGED <<mcpRest, mcpVars>>

NextMcp ==
    \/ McpStarts \/ McpAnswers \/ McpCallsExtract \/ McpBadJson \/ McpEof

SpecMcp == InitMcp /\ [][NextMcp]_vars

(***************************************************************************)
(* C25                                                                     *)
(***************************************************************************)
\* C25 as stated: in MCP stdio mode standard output carries only JSON-RPC
\* responses; the log lines, those printed during a tools/call extraction
\* included, go to standard error
C25_AsStated == \A i \in DOMAIN stdout : stdout[i].kind = "rpc"

(***************************************************************************)
(* C26                                                                     *)
(***************************************************************************)
\* the placeholders of token t in a text, as line 249 finds them
PlaceholdersOf(t, text) == Len(SelectSeq(findall(text), LAMBDA x : x = t))

\* C26 as stated: substituting the placeholders of the tokens that were
\* saved leaves the placeholder of every other token as it was handed in,
\* also where one token is the beginning of the other
C26_AsStated ==
    pc = "resolved" =>
        \A i \in DOMAIN tokens :
            ~Succeeded(tokens[i]) =>
                PlaceholdersOf(tokens[i], md_text) = PlaceholdersOf(tokens[i], mdOut)

(***************************************************************************)
(* C27                                                                     *)
(***************************************************************************)
\* C27 as stated: cleanup_markdown is idempotent: a second pass over its
\* output, with the same title, returns the output unchanged
C27_AsStated == pc = "cleaned" => cleanup_markdown(mdOut, title) = mdOut

(***************************************************************************)
(* C28                                                                     *)
(***************************************************************************)
\* the threads that have sent a command on the login websocket and not yet
\* returned from cdp
LoginWsUsers ==
    (IF pc \in {"recvHref", "recvNav", "href", "check", "saving"} THEN {"main"} ELSE {})
        \cup (IF helper = "shooting" THEN {"helper"} ELSE {})

\* C28 as stated: while the helper server runs, a thread in a CDP exchange on
\* the login websocket holds _login_ws_lock, so no two threads are in an
\* exchange at once
C28_AsStated ==
    helper # "off" =>
        /\ \A t \in LoginWsUsers : lock = t
        /\ Cardinality(LoginWsUsers) <= 1

(***************************************************************************)
(* C29                                                                     *)
(***************************************************************************)
\* wait_for_login has returned, and had started the helper server: line 167
\* has read location.href
ReturnedAfterHelper == pc = "loginDone" /\ current_url # <<>>

\* C29: whenever wait_for_login returns after having started the helper
\* server, the server is shut down, _login_server and _login_ws_ref are
\* None, and the status flag is "logged_in" exactly when True is returned and
\* "timeout" exactly when False is returned
C29_TornDown ==
    ReturnedAfterHelper =>
        /\ helper = "off" /\ login_ws_ref = "None"
        /\ flag = "logged_in" <=> login = <<TRUE>>
        /\ flag = "timeout" <=> login = <<FALSE>>

\* a login seen at the second poll, and the helper stopped after it
C29_Witness ==
    /\ ReturnedAfterHelper /\ polls = 2
    /\ login = <<TRUE>> /\ flag = "logged_in" /\ helper = "off" /\ login_ws_ref = "None"

(***************************************************************************)
(* C30                                                                     *)
(***************************************************************************)
\* C30 as stated: cdp returns the result of the response whose id is the id
\* the call sent, never that of a response to another command
C30_AsStated == lastReturn # <<>> => lastReturn.got = lastReturn.sent

====
